---- MODULE Spec2Model ----
(***************************************************************************)
(* Model of the change-detection engine of doc-diff-ai                     *)
(* (src/change_detector.py), of the fallback annotation id of the document *)
(* parser (src/0914_backup/document_parser.py), of the upload handlers     *)
(* compare_documents (src/app.py) and api_compare (src/app/routes.py) and  *)
(* of the sentence comparison DocumentComparator._compare_word             *)
(* (src/app/services/comparator.py).                                       *)
(*                                                                         *)
(* Text is a sequence of one-character strings, so that tokenizing,        *)
(* slicing, escaping and joining are computed and not assumed.  Python's   *)
(* None is the empty tuple None and a present optional value v is the      *)
(* one-element tuple Some(v).  Floats are integers counting 1e-4 units.    *)
(***************************************************************************)
EXTENDS Integers, Sequences, FiniteSets, TLC

VARIABLES
    pc,         \* position of the harness: which call has returned
    original,   \* first argument of detect_changes (a normalized document)
    revised,    \* second argument of detect_changes
    changes,    \* report returned by detect_changes(original, revised)
    swapped,    \* report returned by detect_changes(revised, original)
    old,        \* first argument of _word_diff_html
    new,        \* second argument of _word_diff_html
    diff,       \* value returned by _word_diff_html(old, new)
    uploads,    \* the upload folder of app.py: file name -> content or None
    requests    \* the /compare requests being handled, each with its locals

vars == <<pc, original, revised, changes, swapped, old, new, diff, uploads,
          requests>>

---------------------------------------------------------------------------
(* Bounds of the model *)

MaxLen == 3         \* longest free text given to the token differ
MaxWords == 4       \* longest word list of the word-insertion inputs
MaxParas == 2       \* most paragraphs of a docx input
MaxImages == 2      \* most images of a docx input
MaxTables == 1      \* most tables of a docx input
MaxPages == 2       \* most pages of a pdf input
MaxSheets == 2      \* most sheets of an xlsx input
MaxAnnots == 2      \* most annotations of a pdf input

---------------------------------------------------------------------------
(* Python values *)

None == <<>>
Some(v) == <<v>>
\* `o or d' for an optional text o: None and "" are both falsy
OrElse(o, d) == IF o = <<>> \/ o[1] = <<>> THEN d ELSE o[1]

Min(a, b) == IF a < b THEN a ELSE b
Max(a, b) == IF a > b THEN a ELSE b

RECURSIVE Concat(_)
\* ''.join(parts)
Concat(parts) ==
    IF parts = <<>> THEN <<>> ELSE Head(parts) \o Concat(Tail(parts))

\* a[i1:i2] with Python's 0-based, half-open indices
Slice(a, i1, i2) == SubSeq(a, i1 + 1, i2)

RECURSIVE SeqsUpTo(_, _)
\* all sequences over S of length at most n
SeqsUpTo(S, n) ==
    IF n = 0 THEN {<<>>}
    ELSE LET shorter == SeqsUpTo(S, n - 1)
         IN shorter \cup {Append(s, c) : s \in shorter, c \in S}

---------------------------------------------------------------------------
(* Characters: the classes \w, \s and "neither" of Python's re module *)

WordCharSet == {"a", "b", "c", "x", "y", "o", "l", "d", "n", "e", "w",
                "t", "g", "q", "u", "m", "p", "i", "s",
                "0", "1", "2", "3", "4", "5", "6", "7", "8", "9", "_"}
SpaceCharSet == {" ", "\n", "\t"}

CharClass(c) ==
    IF c \in WordCharSet THEN "word"
    ELSE IF c \in SpaceCharSet THEN "space"
    ELSE "punct"

\* str.isspace() / not str.strip() of a non-empty token
IsSpaceToken(t) == \A k \in 1..Len(t) : t[k] \in SpaceCharSet

---------------------------------------------------------------------------
(* _tokenize_keep_spaces: re.findall(r'\w+|[^\w\s]+|\s+', s) *)

RECURSIVE RunEnd(_, _)
\* index of the last character of the maximal one-class run starting at i
RunEnd(s, i) ==
    IF i < Len(s) /\ CharClass(s[i + 1]) = CharClass(s[i])
    THEN RunEnd(s, i + 1)
    ELSE i

RECURSIVE TokensFrom(_, _)
TokensFrom(s, i) ==
    IF i > Len(s) THEN <<>>
    ELSE LET e == RunEnd(s, i)
         IN <<SubSeq(s, i, e)>> \o TokensFrom(s, e + 1)

\* the tokenizer if its pattern had no \s+ alternative
TokenizeDropSpaces(s) ==
    SelectSeq(TokensFrom(s, 1), LAMBDA t : ~IsSpaceToken(t))

_tokenize_keep_spaces(s) == TokensFrom(s, 1)

---------------------------------------------------------------------------
(* difflib.SequenceMatcher(a=a, b=b) without junk (autojunk only acts on   *)
(* sequences of 200 or more elements): find_longest_match,                 *)
(* get_matching_blocks and get_opcodes.  Indices are Python's.             *)

RECURSIVE MatchLen(_, _, _, _, _, _)
\* length of the common run starting at a[i], b[j] inside [i, ahi) x [j, bhi)
MatchLen(a, b, i, j, ahi, bhi) ==
    IF i < ahi /\ j < bhi /\ a[i + 1] = b[j + 1]
    THEN 1 + MatchLen(a, b, i + 1, j + 1, ahi, bhi)
    ELSE 0

SetMax(S) == CHOOSE m \in S : \A n \in S : n <= m
SetMin(S) == CHOOSE m \in S : \A n \in S : m <= n

\* the longest matching block; of those the one starting earliest in a, and
\* of those the one starting earliest in b; <<alo, blo, 0>> if none
find_longest_match(a, b, alo, ahi, blo, bhi) ==
    LET I == alo..(ahi - 1)
        J == blo..(bhi - 1)
        sizes == {MatchLen(a, b, i, j, ahi, bhi) : i \in I, j \in J}
        k == IF sizes = {} THEN 0 ELSE SetMax(sizes)
    IN IF k = 0 THEN <<alo, blo, 0>>
       ELSE LET besti == SetMin({i \in I : \E j \in J :
                                    MatchLen(a, b, i, j, ahi, bhi) = k})
                bestj == SetMin({j \in J :
                                    MatchLen(a, b, besti, j, ahi, bhi) = k})
            IN <<besti, bestj, k>>

RECURSIVE MatchingBlocksIn(_, _, _, _, _, _)
RECURSIVE BlocksAround(_, _, _, _, _, _, _)
\* the window once its longest block m = <<i, j, k>> is known: the blocks to
\* the left of m, m, the blocks to the right of m
BlocksAround(a, b, alo, ahi, blo, bhi, m) ==
    IF m[3] = 0 THEN <<>>
    ELSE (IF alo < m[1] /\ blo < m[2]
          THEN MatchingBlocksIn(a, b, alo, m[1], blo, m[2]) ELSE <<>>)
         \o <<m>>
         \o (IF m[1] + m[3] < ahi /\ m[2] + m[3] < bhi
             THEN MatchingBlocksIn(a, b, m[1] + m[3], ahi, m[2] + m[3], bhi)
             ELSE <<>>)

\* the blocks found in the window, in increasing order (the sorted queue)
MatchingBlocksIn(a, b, alo, ahi, blo, bhi) ==
    BlocksAround(a, b, alo, ahi, blo, bhi,
                 find_longest_match(a, b, alo, ahi, blo, bhi))

RECURSIVE CollapseAdjacent(_, _)
\* merge blocks that touch in both sequences; cur is the block being grown
CollapseAdjacent(blocks, cur) ==
    IF blocks = <<>>
    THEN (IF cur[3] > 0 THEN <<cur>> ELSE <<>>)
    ELSE LET nxt == Head(blocks)
         IN IF cur[1] + cur[3] = nxt[1] /\ cur[2] + cur[3] = nxt[2]
            THEN CollapseAdjacent(Tail(blocks),
                                  <<cur[1], cur[2], cur[3] + nxt[3]>>)
            ELSE (IF cur[3] > 0 THEN <<cur>> ELSE <<>>)
                 \o CollapseAdjacent(Tail(blocks), nxt)

get_matching_blocks(a, b) ==
    CollapseAdjacent(MatchingBlocksIn(a, b, 0, Len(a), 0, Len(b)), <<0, 0, 0>>)
    \o << <<Len(a), Len(b), 0>> >>

Opcode(tag, i1, i2, j1, j2) ==
    [tag |-> tag, i1 |-> i1, i2 |-> i2, j1 |-> j1, j2 |-> j2]

RECURSIVE OpcodesFrom(_, _, _)
OpcodesFrom(blocks, i, j) ==
    IF blocks = <<>> THEN <<>>
    ELSE LET ai == Head(blocks)[1]
             bj == Head(blocks)[2]
             size == Head(blocks)[3]
             gap == IF i < ai /\ j < bj THEN <<Opcode("replace", i, ai, j, bj)>>
                    ELSE IF i < ai THEN <<Opcode("delete", i, ai, j, bj)>>
                    ELSE IF j < bj THEN <<Opcode("insert", i, ai, j, bj)>>
                    ELSE <<>>
             eq == IF size > 0
                   THEN <<Opcode("equal", ai, ai + size, bj, bj + size)>>
                   ELSE <<>>
         IN gap \o eq \o OpcodesFrom(Tail(blocks), ai + size, bj + size)

get_opcodes(a, b) == OpcodesFrom(get_matching_blocks(a, b), 0, 0)

---------------------------------------------------------------------------
(* html.escape and the markers of _word_diff_html *)

html_escape_char(c) ==
    IF c = "&" THEN <<"&", "a", "m", "p", ";">>
    ELSE IF c = "<" THEN <<"&", "l", "t", ";">>
    ELSE IF c = ">" THEN <<"&", "g", "t", ";">>
    ELSE IF c = "\"" THEN <<"&", "q", "u", "o", "t", ";">>
    ELSE IF c = "'" THEN <<"&", "#", "x", "2", "7", ";">>
    ELSE <<c>>

html_escape(t) == Concat([k \in 1..Len(t) |-> html_escape_char(t[k])])

\* ''.join(html.escape(x) for x in tokens)
EscapeJoin(tokens) == Concat([k \in 1..Len(tokens) |-> html_escape(tokens[k])])

InsOpen == <<"<", "i", "n", "s", " ", "c", "l", "a", "s", "s", "=", "\"",
             "d", "i", "f", "f", "-", "a", "d", "d", "\"", ">">>
InsClose == <<"<", "/", "i", "n", "s", ">">>
DelOpen == <<"<", "d", "e", "l", " ", "c", "l", "a", "s", "s", "=", "\"",
             "d", "i", "f", "f", "-", "d", "e", "l", "\"", ">">>
DelClose == <<"<", "/", "d", "e", "l", ">">>

\* [t for t in tokens if t.strip() and not t.isspace()]
Terms(tokens) == SelectSeq(tokens, LAMBDA t : ~IsSpaceToken(t))

---------------------------------------------------------------------------
(* _word_diff_html(old, new) *)

\* the markup piece one opcode appends if the equal spans were copied
\* without html.escape
DiffPieceRawEqual(a, b, op) ==
    IF op.tag = "equal" THEN Concat(Slice(a, op.i1, op.i2))
    ELSE IF op.tag = "insert"
         THEN InsOpen \o EscapeJoin(Slice(b, op.j1, op.j2)) \o InsClose
    ELSE IF op.tag = "delete"
         THEN DelOpen \o EscapeJoin(Slice(a, op.i1, op.i2)) \o DelClose
    ELSE DelOpen \o EscapeJoin(Slice(a, op.i1, op.i2)) \o DelClose
         \o InsOpen \o EscapeJoin(Slice(b, op.j1, op.j2)) \o InsClose

\* the markup piece one opcode appends
DiffPiece(a, b, op) ==
    IF op.tag = "equal" THEN EscapeJoin(Slice(a, op.i1, op.i2))
    ELSE IF op.tag = "insert"
         THEN InsOpen \o EscapeJoin(Slice(b, op.j1, op.j2)) \o InsClose
    ELSE IF op.tag = "delete"
         THEN DelOpen \o EscapeJoin(Slice(a, op.i1, op.i2)) \o DelClose
    ELSE DelOpen \o EscapeJoin(Slice(a, op.i1, op.i2)) \o DelClose
         \o InsOpen \o EscapeJoin(Slice(b, op.j1, op.j2)) \o InsClose

\* `added' if the replace branch forgot its new side
DiffAddedInsertOnly(b, op) ==
    IF op.tag = "insert" THEN Terms(Slice(b, op.j1, op.j2)) ELSE <<>>

\* what one opcode adds to `added'
DiffAdded(b, op) ==
    IF op.tag \in {"insert", "replace"} THEN Terms(Slice(b, op.j1, op.j2))
    ELSE <<>>

\* what one opcode adds to `deleted'
DiffDeleted(a, op) ==
    IF op.tag \in {"delete", "replace"} THEN Terms(Slice(a, op.i1, op.i2))
    ELSE <<>>

\* the three results once the opcodes ops of the token lists a, b are known
WordDiffOf(a, b, ops) ==
    [html |-> Concat([k \in 1..Len(ops) |-> DiffPiece(a, b, ops[k])]),
     added |-> Concat([k \in 1..Len(ops) |-> DiffAdded(b, ops[k])]),
     deleted |-> Concat([k \in 1..Len(ops) |-> DiffDeleted(a, ops[k])])]

_word_diff_html(o, n) ==
    WordDiffOf(_tokenize_keep_spaces(o), _tokenize_keep_spaces(n),
               get_opcodes(_tokenize_keep_spaces(o), _tokenize_keep_spaces(n)))

---------------------------------------------------------------------------
(* _split_sentences: re.split(r'(?<=[\.\!\?])\s+|\n+', s), empty parts     *)
(* dropped                                                                 *)

SentenceEndSet == {".", "!", "?"}

RECURSIVE ClassRunEnd(_, _, _)
\* index of the last character of the maximal run of characters of S at i
ClassRunEnd(s, i, S) ==
    IF i < Len(s) /\ s[i + 1] \in S THEN ClassRunEnd(s, i + 1, S) ELSE i

\* the part s[start..last], as a list of zero or one kept part
KeptPart(s, start, last) ==
    IF start <= last THEN <<SubSeq(s, start, last)>> ELSE <<>>

RECURSIVE SplitFrom(_, _, _)
\* p scans for the next separator; start is where the current part begins
SplitFrom(s, p, start) ==
    IF p > Len(s) THEN KeptPart(s, start, Len(s))
    ELSE IF p > 1 /\ s[p - 1] \in SentenceEndSet /\ s[p] \in SpaceCharSet
    THEN LET e == ClassRunEnd(s, p, SpaceCharSet)
         IN KeptPart(s, start, p - 1) \o SplitFrom(s, e + 1, e + 1)
    ELSE IF s[p] = "\n"
    THEN LET e == ClassRunEnd(s, p, {"\n"})
         IN KeptPart(s, start, p - 1) \o SplitFrom(s, e + 1, e + 1)
    ELSE SplitFrom(s, p + 1, start)

_split_sentences(s) == SplitFrom(s, 1, 1)

---------------------------------------------------------------------------
(* str() of the numbers the detector formats *)

DigitChar(d) == <<"0", "1", "2", "3", "4", "5", "6", "7", "8", "9">>[d + 1]

RECURSIVE NatToStr(_)
NatToStr(n) ==
    IF n < 10 THEN <<DigitChar(n)>>
    ELSE NatToStr(n \div 10) \o <<DigitChar(n % 10)>>

\* str(n) of an int
IntToStr(n) == IF n < 0 THEN <<"-">> \o NatToStr(-n) ELSE NatToStr(n)

---------------------------------------------------------------------------
(* Iteration orders.  A dict is iterated in insertion order.  A set of     *)
(* strings is iterated in an order that depends on the hash seed of the    *)
(* interpreter: seed 0 and seed 1 stand for two processes that walk every  *)
(* set in opposite orders.                                                 *)

HashSeeds == {0, 1}

RECURSIVE Enumerate(_)
Enumerate(S) ==
    IF S = {} THEN <<>>
    ELSE LET x == CHOOSE y \in S : TRUE
         IN <<x>> \o Enumerate(S \ {x})

Reverse(q) == [k \in 1..Len(q) |-> q[Len(q) + 1 - k]]

SetOrder(S, seed) == IF seed = 0 THEN Enumerate(S) ELSE Reverse(Enumerate(S))

Range(q) == {q[k] : k \in 1..Len(q)}

\* the keys of the dict {key(e): e for e in list}, in insertion order, from
\* keys, the list of key(e) for e in list
DictKeys(keys) ==
    Concat([k \in 1..Len(keys) |->
              IF \E h \in 1..(k - 1) : keys[h] = keys[k]
              THEN <<>> ELSE <<keys[k]>>])

\* the value the dict would hold if the first element of a key were kept
DictGetFirst(list, keys, kk) == list[SetMin({k \in 1..Len(list) : keys[k] = kk})]

\* the value that dict holds under key kk: the last element with that key
DictGet(list, keys, kk) == list[SetMax({k \in 1..Len(list) : keys[k] = kk})]

---------------------------------------------------------------------------
(* Text comparators *)

\* one index of the loop of _detect_docx_text_changes
DocxTextChange(i, ot, nt) ==
    IF ot # <<>> /\ nt = <<>>
    THEN <<[type |-> "text_change", change_type |-> "deleted",
            content |-> ot, paragraph_index |-> i, document_type |-> "docx"]>>
    ELSE IF nt # <<>> /\ ot = <<>>
    THEN <<[type |-> "text_change", change_type |-> "added",
            content |-> nt, paragraph_index |-> i, document_type |-> "docx"]>>
    ELSE IF ot # nt
    THEN LET d == _word_diff_html(ot, nt)
         IN <<[type |-> "text_change", change_type |-> "modified",
               content_html |-> d.html, old_text |-> ot, new_text |-> nt,
               added_terms |-> d.added, deleted_terms |-> d.deleted,
               paragraph_index |-> i, document_type |-> "docx"]>>
    ELSE <<>>

_detect_docx_text_changes(o, r) ==
    LET op == o.paragraphs
        rp == r.paragraphs
        n == Max(Len(op), Len(rp))
    IN Concat([k \in 1..n |->
                 DocxTextChange(k - 1,
                                IF k <= Len(op) THEN op[k].text ELSE <<>>,
                                IF k <= Len(rp) THEN rp[k].text ELSE <<>>)])

PdfSentence(ct, sent, page) ==
    [type |-> "text_change", change_type |-> ct, content |-> sent,
     page_number |-> page, document_type |-> "pdf"]

PdfModified(s_old, s_new, page) ==
    LET d == _word_diff_html(s_old, s_new)
    IN [type |-> "text_change", change_type |-> "modified",
        content_html |-> d.html, old_text |-> s_old, new_text |-> s_new,
        added_terms |-> d.added, deleted_terms |-> d.deleted,
        page_number |-> page, document_type |-> "pdf"]

\* the records of one opcode if a replace span kept its pairs only and
\* dropped the sentences left over on the longer side
PdfOpChangesPairsOnly(a, b, op, page) ==
    LET old_seg == Slice(a, op.i1, op.i2)
        new_seg == Slice(b, op.j1, op.j2)
        k == Min(Len(old_seg), Len(new_seg))
    IN IF op.tag = "equal" THEN <<>>
       ELSE IF op.tag = "delete"
       THEN [n \in 1..Len(old_seg) |-> PdfSentence("deleted", old_seg[n], page)]
       ELSE IF op.tag = "insert"
       THEN [n \in 1..Len(new_seg) |-> PdfSentence("added", new_seg[n], page)]
       ELSE [n \in 1..k |-> PdfModified(old_seg[n], new_seg[n], page)]

\* the records one opcode over the sentences of a page appends
PdfOpChanges(a, b, op, page) ==
    LET old_seg == Slice(a, op.i1, op.i2)
        new_seg == Slice(b, op.j1, op.j2)
        k == Min(Len(old_seg), Len(new_seg))
    IN IF op.tag = "equal" THEN <<>>
       ELSE IF op.tag = "delete"
       THEN [n \in 1..Len(old_seg) |-> PdfSentence("deleted", old_seg[n], page)]
       ELSE IF op.tag = "insert"
       THEN [n \in 1..Len(new_seg) |-> PdfSentence("added", new_seg[n], page)]
       ELSE [n \in 1..k |-> PdfModified(old_seg[n], new_seg[n], page)]
            \o [n \in 1..(Len(old_seg) - k) |->
                    PdfSentence("deleted", old_seg[k + n], page)]
            \o [n \in 1..(Len(new_seg) - k) |->
                    PdfSentence("added", new_seg[k + n], page)]

\* (page.get('text') if the page exists else "") or ""
PageText(pages, k) ==
    IF k <= Len(pages) THEN OrElse(pages[k].text, <<>>) ELSE <<>>

PdfPageChanges(ot, nt, page) ==
    LET a == _split_sentences(ot)
        b == _split_sentences(nt)
        ops == get_opcodes(a, b)
    IN Concat([n \in 1..Len(ops) |-> PdfOpChanges(a, b, ops[n], page)])

_detect_pdf_text_changes(o, r) ==
    LET op == o.pages
        rp == r.pages
        m == Max(Len(op), Len(rp))
    IN Concat([k \in 1..m |->
                 PdfPageChanges(PageText(op, k), PageText(rp, k), k)])

\* the stringification if it were repr(v): a text keeps its quotes
ToStrRepr(v) ==
    IF v = None THEN <<>>
    ELSE IF v[1] = "int" THEN IntToStr(v[2])
    ELSE <<"'">> \o v[2] \o <<"'">>

\* "" if v is None else str(v); a value is None, <<"int", n>> or <<"str", s>>
_to_str(v) ==
    IF v = None THEN <<>>
    ELSE IF v[1] = "int" THEN IntToStr(v[2])
    ELSE v[2]

SheetAddedText == <<"S", "h", "e", "e", "t", " ", "a", "d", "d", "e", "d", ":", " ">>
SheetDeletedText == <<"S", "h", "e", "e", "t", " ", "d", "e", "l", "e", "t", "e", "d", ":", " ">>

\* the keys c['coordinate'] of a list of cells
CellCoordinates(cells) == [k \in 1..Len(cells) |-> cells[k].coordinate]

\* [c for row in sheet['cells'] for c in row]
SheetCells(sh) == Concat(sh.cells)

\* next((s for s in sheets if s['name'] == name), None)
FirstSheet(sheets, name) ==
    IF \E k \in 1..Len(sheets) : sheets[k].name = name
    THEN Some(sheets[SetMin({k \in 1..Len(sheets) : sheets[k].name = name})])
    ELSE None

\* one coordinate of the loop over allc
XlsxCellChange(ocells, rcells, coord, sheet_name) ==
    LET inO == \E k \in 1..Len(ocells) : ocells[k].coordinate = coord
        inR == \E k \in 1..Len(rcells) : rcells[k].coordinate = coord
    IN IF ~inO
       THEN LET val == _to_str(DictGet(rcells, CellCoordinates(rcells), coord).value)
            IN <<[type |-> "cell_added", change_type |-> "added",
                  content |-> val, value |-> val, coordinate |-> coord,
                  sheet_name |-> sheet_name, document_type |-> "xlsx"]>>
       ELSE IF ~inR
       THEN LET val == _to_str(DictGet(ocells, CellCoordinates(ocells), coord).value)
            IN <<[type |-> "cell_deleted", change_type |-> "deleted",
                  content |-> val, value |-> val, coordinate |-> coord,
                  sheet_name |-> sheet_name, document_type |-> "xlsx"]>>
       ELSE LET old_val == _to_str(DictGet(ocells, CellCoordinates(ocells), coord).value)
                new_val == _to_str(DictGet(rcells, CellCoordinates(rcells), coord).value)
                d == _word_diff_html(old_val, new_val)
            IN IF old_val # new_val
               THEN <<[type |-> "cell_modified", change_type |-> "modified",
                       coordinate |-> coord, sheet_name |-> sheet_name,
                       document_type |-> "xlsx",
                       old_value |-> old_val, new_value |-> new_val,
                       content_html |-> d.html, added_terms |-> d.added,
                       deleted_terms |-> d.deleted]>>
               ELSE <<>>

\* one sheet name of the loop over sheet_names
XlsxSheetChanges(o, r, sheet_name, seed) ==
    LET osheet == FirstSheet(o.sheets, sheet_name)
        rsheet == FirstSheet(r.sheets, sheet_name)
    IN IF osheet = None
       THEN <<[type |-> "sheet_added", change_type |-> "added",
               content |-> SheetAddedText \o sheet_name,
               sheet_name |-> sheet_name, document_type |-> "xlsx"]>>
       ELSE IF rsheet = None
       THEN <<[type |-> "sheet_deleted", change_type |-> "deleted",
               content |-> SheetDeletedText \o sheet_name,
               sheet_name |-> sheet_name, document_type |-> "xlsx"]>>
       ELSE LET ocells == SheetCells(osheet[1])
                rcells == SheetCells(rsheet[1])
                allc == SetOrder({ocells[k].coordinate : k \in 1..Len(ocells)}
                                 \cup {rcells[k].coordinate : k \in 1..Len(rcells)},
                                 seed)
            IN Concat([n \in 1..Len(allc) |->
                         XlsxCellChange(ocells, rcells, allc[n], sheet_name)])

_detect_xlsx_text_changes(o, r, seed) ==
    LET sheet_names == SetOrder({o.sheets[k].name : k \in 1..Len(o.sheets)}
                                \cup {r.sheets[k].name : k \in 1..Len(r.sheets)},
                                seed)
    IN Concat([n \in 1..Len(sheet_names) |->
                 XlsxSheetChanges(o, r, sheet_names[n], seed)])

_detect_text_changes(o, r, seed) ==
    IF o.type = "docx" /\ r.type = "docx" THEN _detect_docx_text_changes(o, r)
    ELSE IF o.type = "pdf" /\ r.type = "pdf" THEN _detect_pdf_text_changes(o, r)
    ELSE IF o.type = "xlsx" /\ r.type = "xlsx"
    THEN _detect_xlsx_text_changes(o, r, seed)
    ELSE <<>>

---------------------------------------------------------------------------
(* Annotations (pdf).  A float is an integer counting 1e-4 units; the      *)
(* inputs of the model are non-negative and never end in the digit 5, so   *)
(* that no rounding below is a tie of the binary value.                    *)

AnnotPrefixLen == 64

\* int(x * 1000) / 1000 in place of round(x, 3): the fourth decimal cut off
Round3Truncated(n) == n \div 10

\* round(x, 3): from 1e-4 units to 1e-3 units
Round3(n) ==
    LET q == n \div 10
        r == n % 10
    IN IF r < 5 THEN q
       ELSE IF r > 5 THEN q + 1
       ELSE IF q % 2 = 0 THEN q ELSE q + 1

_norm_floats(v) ==
    IF v = None THEN None
    ELSE Some([k \in 1..Len(v[1]) |-> Round3(v[1][k])])

RECURSIVE StripZeros(_)
\* the digits of a fraction without its trailing zeros, one digit at least
StripZeros(ds) ==
    IF Len(ds) > 1 /\ ds[Len(ds)] = "0"
    THEN StripZeros(SubSeq(ds, 1, Len(ds) - 1))
    ELSE ds

\* str(x) of a float of m 1e-3 units, m >= 0: "1.0", "1.25", "0.001"
FloatStr(m) ==
    NatToStr(m \div 1000) \o <<".">>
    \o StripZeros(<<DigitChar((m \div 100) % 10), DigitChar((m \div 10) % 10),
                    DigitChar(m % 10)>>)

\* f'{x:.2f}' of a float of n 1e-4 units, n >= 0: "1.00", "1.25"; no input
\* lies halfway between two hundredths
Fixed2(n) ==
    LET h == (n + 50) \div 100
    IN NatToStr(h \div 100) \o <<".">>
       \o <<DigitChar((h \div 10) % 10), DigitChar(h % 10)>>

RECURSIVE JoinWith(_, _)
\* sep.join(parts)
JoinWith(parts, sep) ==
    IF parts = <<>> THEN <<>>
    ELSE IF Len(parts) = 1 THEN parts[1]
    ELSE parts[1] \o sep \o JoinWith(Tail(parts), sep)

\* f"{v}" of an optional int
OptIntStr(v) == IF v = None THEN <<"N", "o", "n", "e">> ELSE IntToStr(v[1])

\* hashlib.md5(base.encode('utf-8')).hexdigest()[:10].  The digest is not
\* computed: it is a tag followed by the hashed text, so that equal texts
\* have equal digests and different texts different ones.
Md5Hex10(base) == <<"#">> \o base

AutoPrefix == <<"A", "U", "T", "O", "-">>

\* the text _annot_key hashes
AnnotKeyBase(a) ==
    LET rect == _norm_floats(a.rect)
        rectList == IF rect = None THEN <<>> ELSE rect[1]
        contents == OrElse(a.contents, <<>>)
    IN OptIntStr(a.page_number) \o <<":">>
       \o OrElse(a.subtype, <<>>) \o <<":">>
       \o JoinWith([k \in 1..Len(rectList) |-> FloatStr(rectList[k])], <<",">>)
       \o <<":">>
       \o SubSeq(contents, 1, Min(Len(contents), AnnotPrefixLen))

\* the key if the contents were hashed whole, without the [:64] cut
AnnotKeyWholeContents(a) ==
    IF OrElse(a.id, <<>>) # <<>> THEN OrElse(a.id, <<>>)
    ELSE AutoPrefix
         \o Md5Hex10(AnnotKeyBase(a)
                     \o SubSeq(OrElse(a.contents, <<>>), AnnotPrefixLen + 1,
                               Len(OrElse(a.contents, <<>>))))

\* the key if the contents were left out of the hashed string
AnnotKeyWithoutContents(a) ==
    IF OrElse(a.id, <<>>) # <<>> THEN OrElse(a.id, <<>>)
    ELSE AutoPrefix
         \o Md5Hex10(OptIntStr(a.page_number) \o <<":">>
                     \o OrElse(a.subtype, <<>>) \o <<":">>
                     \o JoinWith([k \in 1..Len(OrElse(_norm_floats(a.rect), <<>>)) |->
                                    FloatStr(OrElse(_norm_floats(a.rect), <<>>)[k])],
                                 <<",">>)
                     \o <<":">>)

_annot_key(a) ==
    LET nm == OrElse(a.id, <<>>)
    IN IF nm # <<>> THEN nm
       ELSE AutoPrefix \o Md5Hex10(AnnotKeyBase(a))

\* self._annot_key(a) for a in list
AnnotKeys(list) == [k \in 1..Len(list) |-> _annot_key(list[k])]

\* document_parser._compute_annot_fallback_id
_compute_annot_fallback_id(page_number, subtype, rect, contents) ==
    LET base == IntToStr(page_number) \o <<":">> \o subtype \o <<":">>
                \o JoinWith([k \in 1..Len(rect) |-> Fixed2(rect[k])], <<",">>)
                \o <<":">> \o contents
    IN AutoPrefix \o IntToStr(page_number) \o <<"-">> \o subtype \o <<"-">>
       \o Md5Hex10(base)

\* DocumentParser._parse_pdf, the id it gives one annotation
ParsedAnnotation(a) ==
    IF OrElse(a.id, <<>>) # <<>> THEN a
    ELSE [a EXCEPT !.id =
            Some(_compute_annot_fallback_id(
                    a.page_number[1], OrElse(a.subtype, <<>>),
                    IF a.rect = None THEN <<>> ELSE a.rect[1],
                    OrElse(a.contents, <<>>)))]

AnnotAddedOrDeleted(ct, k, a) ==
    [type |-> "annotation_change", change_type |-> ct, document_type |-> "pdf",
     id |-> IF OrElse(a.id, <<>>) # <<>> THEN a.id[1] ELSE k,
     page_number |-> a.page_number, subtype |-> a.subtype,
     content |-> a.contents, rect |-> a.rect, quadpoints |-> a.quadpoints,
     author |-> a.author, subject |-> a.subject, color |-> a.color]

\* diffs if rect were compared as extracted, without _norm_floats
AnnotDiffsUnrounded(o, r) ==
    (IF OrElse(o.contents, <<>>) # OrElse(r.contents, <<>>)
        THEN <<"contents">> ELSE <<>>)
    \o (IF o.rect # r.rect THEN <<"rect">> ELSE <<>>)
    \o (IF _norm_floats(o.quadpoints) # _norm_floats(r.quadpoints)
        THEN <<"quadpoints">> ELSE <<>>)
    \o (IF _norm_floats(o.color) # _norm_floats(r.color)
        THEN <<"color">> ELSE <<>>)
    \o (IF OrElse(o.subtype, <<>>) # OrElse(r.subtype, <<>>)
        THEN <<"subtype">> ELSE <<>>)
    \o (IF OrElse(o.author, <<>>) # OrElse(r.author, <<>>)
        THEN <<"author">> ELSE <<>>)
    \o (IF OrElse(o.subject, <<>>) # OrElse(r.subject, <<>>)
        THEN <<"subject">> ELSE <<>>)

\* the names appended to diffs, in the order of the code
AnnotDiffs(o, r) ==
    (IF OrElse(o.contents, <<>>) # OrElse(r.contents, <<>>)
        THEN <<"contents">> ELSE <<>>)
    \o (IF _norm_floats(o.rect) # _norm_floats(r.rect)
        THEN <<"rect">> ELSE <<>>)
    \o (IF _norm_floats(o.quadpoints) # _norm_floats(r.quadpoints)
        THEN <<"quadpoints">> ELSE <<>>)
    \o (IF _norm_floats(o.color) # _norm_floats(r.color)
        THEN <<"color">> ELSE <<>>)
    \o (IF OrElse(o.subtype, <<>>) # OrElse(r.subtype, <<>>)
        THEN <<"subtype">> ELSE <<>>)
    \o (IF OrElse(o.author, <<>>) # OrElse(r.author, <<>>)
        THEN <<"author">> ELSE <<>>)
    \o (IF OrElse(o.subject, <<>>) # OrElse(r.subject, <<>>)
        THEN <<"subject">> ELSE <<>>)

AnnotSnapshot(text, a) ==
    [contents |-> text, rect |-> a.rect, quadpoints |-> a.quadpoints,
     color |-> a.color, author |-> a.author, subject |-> a.subject,
     subtype |-> a.subtype]

\* one shared key of the loop over set(omap) & set(rmap)
AnnotModified(k, o, r) ==
    LET otext == OrElse(o.contents, <<>>)
        rtext == OrElse(r.contents, <<>>)
        diffs == AnnotDiffs(o, r)
    IN IF diffs = <<>> THEN <<>>
       ELSE <<[type |-> "annotation_change", change_type |-> "modified",
               document_type |-> "pdf",
               id |-> IF OrElse(r.id, <<>>) # <<>> THEN r.id[1] ELSE k,
               page_number |-> r.page_number, subtype |-> r.subtype,
               content_html |-> IF otext # rtext
                                THEN Some(_word_diff_html(otext, rtext).html)
                                ELSE None,
               old |-> AnnotSnapshot(otext, o),
               new |-> AnnotSnapshot(rtext, r),
               changed_fields |-> diffs]>>

\* the loop over the keys of both maps, walked in the order `both'
AnnotModifiedOf(olist, rlist, both) ==
    Concat([n \in 1..Len(both) |->
              AnnotModified(both[n], DictGet(olist, AnnotKeys(olist), both[n]),
                            DictGet(rlist, AnnotKeys(rlist), both[n]))])

\* the three loops over the maps omap and rmap built from olist and rlist,
\* whose keys in insertion order are okeys and rkeys
AnnotMapChanges(olist, rlist, okeys, rkeys, seed) ==
    Concat([n \in 1..Len(rkeys) |->
              IF rkeys[n] \notin Range(okeys)
              THEN <<AnnotAddedOrDeleted("added", rkeys[n],
                        DictGet(rlist, AnnotKeys(rlist), rkeys[n]))>>
              ELSE <<>>])
    \o Concat([n \in 1..Len(okeys) |->
              IF okeys[n] \notin Range(rkeys)
              THEN <<AnnotAddedOrDeleted("deleted", okeys[n],
                        DictGet(olist, AnnotKeys(olist), okeys[n]))>>
              ELSE <<>>])
    \o AnnotModifiedOf(olist, rlist,
                       SetOrder(Range(okeys) \cap Range(rkeys), seed))

\* the comparator if its guard looked at the revised document only
AnnotationChangesOfRevisedPdf(o, r, seed) ==
    IF r.type # "pdf" THEN <<>>
    ELSE AnnotMapChanges(o.annotations, r.annotations,
                         DictKeys(AnnotKeys(o.annotations)),
                         DictKeys(AnnotKeys(r.annotations)), seed)

_detect_annotation_changes(o, r, seed) ==
    IF ~(o.type = r.type /\ r.type = "pdf") THEN <<>>
    ELSE AnnotMapChanges(o.annotations, r.annotations,
                         DictKeys(AnnotKeys(o.annotations)),
                         DictKeys(AnnotKeys(r.annotations)), seed)

---------------------------------------------------------------------------
(* Formatting comparators.  A line "attr: old -> new" of a formatting      *)
(* record is the tuple of the attribute and the two values.                *)

RunAttrs == <<"bold", "italic", "underline", "font_name", "font_size",
              "font_color">>

_compare_run_formatting(orig_run, rev_run) ==
    Concat([k \in 1..Len(RunAttrs) |->
        IF orig_run[RunAttrs[k]] # rev_run[RunAttrs[k]]
        THEN << <<RunAttrs[k], orig_run[RunAttrs[k]], rev_run[RunAttrs[k]]>> >>
        ELSE <<>>])

\* one run pair of the inner loop if it compared the formatting of runs
\* whose text differs as well
DocxRunChangeAnyText(i, j, orun, rrun) ==
    IF _compare_run_formatting(orun, rrun) # <<>>
    THEN <<[type |-> "run_formatting_change", paragraph_index |-> i,
            run_index |-> j, text |-> orun.text,
            changes |-> _compare_run_formatting(orun, rrun),
            document_type |-> "docx"]>>
    ELSE <<>>

\* one run pair of the inner loop
DocxRunChange(i, j, orun, rrun) ==
    IF orun.text = rrun.text /\ _compare_run_formatting(orun, rrun) # <<>>
    THEN <<[type |-> "run_formatting_change", paragraph_index |-> i,
            run_index |-> j, text |-> orun.text,
            changes |-> _compare_run_formatting(orun, rrun),
            document_type |-> "docx"]>>
    ELSE <<>>

\* one paragraph pair of the outer loop
DocxParagraphFormatting(i, orig_para, rev_para) ==
    (IF orig_para.style # rev_para.style
     THEN <<[type |-> "paragraph_style_change", paragraph_index |-> i,
             old_style |-> orig_para.style, new_style |-> rev_para.style,
             document_type |-> "docx"]>>
     ELSE <<>>)
    \o Concat([j \in 1..Min(Len(orig_para.runs), Len(rev_para.runs)) |->
                 DocxRunChange(i, j - 1, orig_para.runs[j], rev_para.runs[j])])

_detect_docx_formatting_changes(o, r) ==
    Concat([k \in 1..Min(Len(o.paragraphs), Len(r.paragraphs)) |->
              DocxParagraphFormatting(k - 1, o.paragraphs[k], r.paragraphs[k])])

(* A style descriptor of a spreadsheet cell ('font', 'fill' or 'border') is *)
(* a key that is missing, a key holding None, or a dict of optional values. *)

MissingKey == [has |-> "missing"]
NoneValue == [has |-> "none"]
Dict(d) == [has |-> "dict", d |-> d]

\* cell.get(key, {}).get(attr); not evaluated for a key holding None
StyleAttr(desc, attr) == IF desc.has = "dict" THEN desc.d[attr] ELSE None

FontAttrs == <<"name", "size", "bold", "italic", "color">>
BorderSides == <<"left", "right", "top", "bottom">>

\* None.get(...) raises AttributeError
CellFormattingRaises(oc, rc) ==
    \E desc \in {oc.font, rc.font, oc.fill, rc.fill, oc.border, rc.border} :
        desc.has = "none"

_compare_cell_formatting(oc, rc) ==
    Concat([k \in 1..Len(FontAttrs) |->
        IF StyleAttr(oc.font, FontAttrs[k]) # StyleAttr(rc.font, FontAttrs[k])
        THEN << <<"font", FontAttrs[k], StyleAttr(oc.font, FontAttrs[k]),
                  StyleAttr(rc.font, FontAttrs[k])>> >>
        ELSE <<>>])
    \o (IF StyleAttr(oc.fill, "fg_color") # StyleAttr(rc.fill, "fg_color")
        THEN << <<"fill", "color", StyleAttr(oc.fill, "fg_color"),
                  StyleAttr(rc.fill, "fg_color")>> >>
        ELSE <<>>)
    \o Concat([k \in 1..Len(BorderSides) |->
        IF StyleAttr(oc.border, BorderSides[k])
           # StyleAttr(rc.border, BorderSides[k])
        THEN << <<"border", BorderSides[k],
                  StyleAttr(oc.border, BorderSides[k]),
                  StyleAttr(rc.border, BorderSides[k])>> >>
        ELSE <<>>])

\* the cell pairs _detect_xlsx_formatting_changes compares: per sheet pair
\* with equal names, per coordinate of the original held by both with equal
\* values, <<sheet name, coordinate, original cell, revised cell>>
XlsxComparedCells(o, r) ==
    Concat([k \in 1..Min(Len(o.sheets), Len(r.sheets)) |->
        IF o.sheets[k].name # r.sheets[k].name THEN <<>>
        ELSE LET ocells == SheetCells(o.sheets[k])
                 rcells == SheetCells(r.sheets[k])
                 coords == DictKeys(CellCoordinates(ocells))
             IN Concat([n \in 1..Len(coords) |->
                    IF \A m \in 1..Len(rcells) :
                           rcells[m].coordinate # coords[n]
                    THEN <<>>
                    ELSE LET oc == DictGet(ocells, CellCoordinates(ocells), coords[n])
                             rc == DictGet(rcells, CellCoordinates(rcells), coords[n])
                         IN IF oc.value = rc.value
                            THEN << <<o.sheets[k].name, coords[n], oc, rc>> >>
                            ELSE <<>>])])

XlsxFormattingRaises(o, r) ==
    \E k \in 1..Len(XlsxComparedCells(o, r)) :
        CellFormattingRaises(XlsxComparedCells(o, r)[k][3],
                             XlsxComparedCells(o, r)[k][4])

_detect_xlsx_formatting_changes(o, r) ==
    LET pairs == XlsxComparedCells(o, r)
    IN Concat([k \in 1..Len(pairs) |->
        IF _compare_cell_formatting(pairs[k][3], pairs[k][4]) # <<>>
        THEN <<[type |-> "cell_formatting_change", coordinate |-> pairs[k][2],
                sheet_name |-> pairs[k][1],
                changes |-> _compare_cell_formatting(pairs[k][3], pairs[k][4]),
                document_type |-> "xlsx"]>>
        ELSE <<>>])

_detect_formatting_changes(o, r) ==
    IF o.type = "docx" /\ r.type = "docx"
    THEN _detect_docx_formatting_changes(o, r)
    ELSE IF o.type = "xlsx" /\ r.type = "xlsx"
    THEN _detect_xlsx_formatting_changes(o, r)
    ELSE <<>>

---------------------------------------------------------------------------
(* Tables (docx) *)

\* the cells of one row pair if the cells were counted from one
TableRowChangesFromOne(i, j, orow, rrow) ==
    Concat([k \in 1..Min(Len(orow), Len(rrow)) |->
        IF orow[k].text # rrow[k].text
        THEN <<[type |-> "table_cell_change", table_index |-> i,
                row_index |-> j, cell_index |-> k,
                old_text |-> orow[k].text, new_text |-> rrow[k].text,
                document_type |-> "docx"]>>
        ELSE <<>>])

\* the cells of one row pair
TableRowChanges(i, j, orow, rrow) ==
    Concat([k \in 1..Min(Len(orow), Len(rrow)) |->
        IF orow[k].text # rrow[k].text
        THEN <<[type |-> "table_cell_change", table_index |-> i,
                row_index |-> j, cell_index |-> k - 1,
                old_text |-> orow[k].text, new_text |-> rrow[k].text,
                document_type |-> "docx"]>>
        ELSE <<>>])

\* one table pair
TablePairChanges(i, ot, rt) ==
    (IF Len(ot.rows) # Len(rt.rows)
     THEN <<[type |-> "table_row_count_change", table_index |-> i,
             original_rows |-> Len(ot.rows), revised_rows |-> Len(rt.rows),
             document_type |-> "docx"]>>
     ELSE <<>>)
    \o Concat([j \in 1..Min(Len(ot.rows), Len(rt.rows)) |->
                 TableRowChanges(i, j - 1, ot.rows[j], rt.rows[j])])

_detect_docx_table_changes(o, r) ==
    (IF Len(o.tables) # Len(r.tables)
     THEN <<[type |-> "table_count_change", original_count |-> Len(o.tables),
             revised_count |-> Len(r.tables), document_type |-> "docx"]>>
     ELSE <<>>)
    \o Concat([k \in 1..Min(Len(o.tables), Len(r.tables)) |->
                 TablePairChanges(k - 1, o.tables[k], r.tables[k])])

\* the table comparator without its guard on the kind
TableChangesOfAnyKind(o, r) == _detect_docx_table_changes(o, r)

_detect_table_changes(o, r) ==
    IF o.type = "docx" /\ r.type = "docx"
    THEN _detect_docx_table_changes(o, r)
    ELSE <<>>

---------------------------------------------------------------------------
(* Images (docx).  An image payload is named by a string; a similarity is  *)
(* counted in hundredths.                                                  *)

image_similarity_threshold == 95

\* the payloads base64.b64decode and Image.open accept
DecodablePayloads == {"png1", "png2", "png3"}

\* structural_similarity of two decoded images: an image and itself score
\* 1.0, png1 and png2 are near copies, png1 and png3 score the threshold
\* itself, png2 and png3 are different pictures
Ssim(p, q) ==
    IF p = q THEN 100
    ELSE IF {p, q} = {"png1", "png2"} THEN 97
    ELSE IF {p, q} = {"png1", "png3"} THEN 95
    ELSE 40

\* any exception of the decoding gives 0.0
_compare_images(img1_data, img2_data) ==
    IF img1_data \in DecodablePayloads /\ img2_data \in DecodablePayloads
    THEN Ssim(img1_data, img2_data)
    ELSE 0

\* the records of one image pair if the score were compared with <=
ImagePairChangesAtThreshold(i, oi, ri) ==
    (IF oi.size # ri.size
     THEN <<[type |-> "image_size_change", image_index |-> i,
             old_size |-> oi.size, new_size |-> ri.size,
             document_type |-> "docx"]>>
     ELSE <<>>)
    \o (IF _compare_images(oi.data, ri.data) <= image_similarity_threshold
        THEN <<[type |-> "image_content_change", image_index |-> i,
                similarity |-> _compare_images(oi.data, ri.data),
                document_type |-> "docx"]>>
        ELSE <<>>)

\* one image pair
ImagePairChanges(i, oi, ri) ==
    (IF oi.size # ri.size
     THEN <<[type |-> "image_size_change", image_index |-> i,
             old_size |-> oi.size, new_size |-> ri.size,
             document_type |-> "docx"]>>
     ELSE <<>>)
    \o (IF _compare_images(oi.data, ri.data) < image_similarity_threshold
        THEN <<[type |-> "image_content_change", image_index |-> i,
                similarity |-> _compare_images(oi.data, ri.data),
                document_type |-> "docx"]>>
        ELSE <<>>)

_detect_docx_image_changes(o, r) ==
    (IF Len(o.images) # Len(r.images)
     THEN <<[type |-> "image_count_change", original_count |-> Len(o.images),
             revised_count |-> Len(r.images), document_type |-> "docx"]>>
     ELSE <<>>)
    \o Concat([k \in 1..Min(Len(o.images), Len(r.images)) |->
                 ImagePairChanges(k - 1, o.images[k], r.images[k])])

_detect_image_changes(o, r) ==
    IF o.type = "docx" /\ r.type = "docx"
    THEN _detect_docx_image_changes(o, r)
    ELSE <<>>

---------------------------------------------------------------------------
(* Structure *)

\* the record if the counts were compared with < : a document that lost
\* paragraphs, pages or sheets would go unreported
CountChangeGrowthOnly(name, oc, rc, kind) ==
    IF oc < rc
    THEN <<[type |-> name, original_count |-> oc, revised_count |-> rc,
            document_type |-> kind]>>
    ELSE <<>>

\* if oc != rc: changes.append({...})
CountChange(name, oc, rc, kind) ==
    IF oc # rc
    THEN <<[type |-> name, original_count |-> oc, revised_count |-> rc,
            document_type |-> kind]>>
    ELSE <<>>

_detect_structural_changes(o, r) ==
    IF o.type # r.type
    THEN <<[type |-> "document_type_change", original_type |-> o.type,
            revised_type |-> r.type]>>
    ELSE IF o.type = "docx"
    THEN CountChange("paragraph_count_change", Len(o.paragraphs),
                     Len(r.paragraphs), "docx")
    ELSE IF o.type = "pdf"
    THEN CountChange("page_count_change", Len(o.pages), Len(r.pages), "pdf")
    ELSE IF o.type = "xlsx"
    THEN CountChange("sheet_count_change", Len(o.sheets), Len(r.sheets), "xlsx")
    ELSE <<>>

---------------------------------------------------------------------------
(* detect_changes.  The call returns a report (status "ok") or ends with   *)
(* the exception a comparator raised (status "raised").                    *)

Categories == <<"text_changes", "formatting_changes", "table_changes",
                "image_changes", "annotation_changes", "structural_changes">>

Raised(error) == [status |-> "raised", error |-> error]

\* the value of field type of a document that has no 'type' key
NoTypeKey == "(no type key)"

\* original['type'] or revised['type'] raises KeyError: the text comparator
\* reads original['type'] first, and the chained comparison of the
\* annotation comparator reads both
KindRaises(o, r) == o.type = NoTypeKey \/ r.type = NoTypeKey

DetectRaises(o, r) ==
    o.type = "xlsx" /\ r.type = "xlsx" /\ XlsxFormattingRaises(o, r)

\* the summary if the total were still the sum written before the
\* annotation category was added
SummaryWithoutAnnotations(text, formatting, table, image, annotation, structural) ==
    [total_changes |-> text + formatting + table + image + structural,
     text_changes_count |-> text,
     formatting_changes_count |-> formatting,
     table_changes_count |-> table,
     image_changes_count |-> image,
     annotation_changes_count |-> annotation,
     structural_changes_count |-> structural]

\* the summary once every count is stored and the total is their sum
Summary(text, formatting, table, image, annotation, structural) ==
    [total_changes |-> text + formatting + table + image + annotation
                       + structural,
     text_changes_count |-> text,
     formatting_changes_count |-> formatting,
     table_changes_count |-> table,
     image_changes_count |-> image,
     annotation_changes_count |-> annotation,
     structural_changes_count |-> structural]

\* the dict detect_changes returns, from the six lists
Report(text_changes, formatting_changes, table_changes, image_changes, annotation_changes, structural_changes) ==
    [status |-> "ok",
     text_changes |-> text_changes,
     formatting_changes |-> formatting_changes,
     table_changes |-> table_changes,
     image_changes |-> image_changes,
     annotation_changes |-> annotation_changes,
     structural_changes |-> structural_changes,
     summary |-> Summary(Len(text_changes), Len(formatting_changes),
                         Len(table_changes), Len(image_changes),
                         Len(annotation_changes), Len(structural_changes))]

detect_changes(o, r, seed) ==
    IF KindRaises(o, r) THEN Raised("KeyError")
    ELSE IF DetectRaises(o, r) THEN Raised("AttributeError")
    ELSE Report(_detect_text_changes(o, r, seed),
                _detect_formatting_changes(o, r),
                _detect_table_changes(o, r),
                _detect_image_changes(o, r),
                _detect_annotation_changes(o, r, seed),
                _detect_structural_changes(o, r))

---------------------------------------------------------------------------
(* Normalized documents.  Every document holds every list; a list its kind *)
(* does not have is empty, which is what .get(key, []) reads for it.       *)

EmptyDoc(kind) ==
    [type |-> kind, paragraphs |-> <<>>, tables |-> <<>>, images |-> <<>>,
     pages |-> <<>>, annotations |-> <<>>, sheets |-> <<>>]

Run(text, bold) ==
    [text |-> text, bold |-> bold, italic |-> None, underline |-> None,
     font_name |-> Some("Arial"), font_size |-> Some(11), font_color |-> None]

Paragraph(text, style, runs) == [text |-> text, style |-> style, runs |-> runs]

Image(data, size) == [data |-> data, size |-> Some(size)]

Cell(coordinate, value, font) ==
    [coordinate |-> coordinate, value |-> value, font |-> font,
     fill |-> Dict([fg_color |-> None]),
     border |-> Dict([left |-> None, right |-> None, top |-> None,
                      bottom |-> None])]

Font(bold) ==
    Dict([name |-> Some("Calibri"), size |-> Some(11), bold |-> Some(bold),
          italic |-> Some(FALSE), color |-> None])

Sheet(name, cells) == [name |-> name, cells |-> cells]

Annotation(id, page, subtype, rect, quadpoints, contents, author, subject, color) ==
    [id |-> id, page_number |-> Some(page), subtype |-> subtype, rect |-> rect,
     quadpoints |-> quadpoints, contents |-> contents, author |-> author,
     subject |-> subject, color |-> color]

---------------------------------------------------------------------------
(* Inputs of detect_changes *)

TextA == <<"a">>
TextAB == <<"a", " ", "b">>
TextB == <<"b">>

ParagraphInputs ==
    {Paragraph(<<>>, Some("Normal"), <<>>),
     Paragraph(TextA, Some("Normal"), <<Run(TextA, Some(FALSE))>>),
     Paragraph(TextA, Some("Heading 1"), <<Run(TextA, Some(TRUE))>>),
     Paragraph(TextAB, Some("Normal"), <<Run(TextA, None), Run(TextB, None)>>)}

ImageInputs ==
    {Image("png1", <<4, 4>>), Image("png2", <<4, 4>>), Image("png3", <<8, 8>>),
     Image("corrupt", <<4, 4>>)}

TableInputs ==
    {[rows |-> << <<[text |-> TextA], [text |-> TextB]>> >>],
     [rows |-> << <<[text |-> TextA], [text |-> TextA]>> >>],
     [rows |-> << <<[text |-> TextB]>>, <<[text |-> TextB]>> >>]}

DocxInputs ==
    {[EmptyDoc("docx") EXCEPT !.paragraphs = ps] :
        ps \in SeqsUpTo(ParagraphInputs, MaxParas)}
    \cup {[EmptyDoc("docx") EXCEPT !.images = is] :
        is \in SeqsUpTo(ImageInputs, MaxImages)}
    \cup {[EmptyDoc("docx") EXCEPT !.tables = ts] :
        ts \in SeqsUpTo(TableInputs, MaxTables)}

PageInputs ==
    {[text |-> Some(<<"x", ".", " ", "y", ".">>)], [text |-> Some(<<"y", ".", " ", "x", ".">>)],
     [text |-> Some(<<"x", ".", "\n", "y", "\n", "x", ".">>)], [text |-> None]}

NamedNote(contents) ==
    Annotation(Some(<<"n", "1">>), 1, Some(<<"T", "e", "x", "t">>), Some(<<10000, 20000>>), None,
               Some(contents), Some(<<"a", "n", "n">>), None, None)

UnnamedNote(contents) ==
    Annotation(None, 1, Some(<<"H", "i", "g", "h", "l", "i", "g", "h", "t">>), Some(<<10000, 20000>>), None,
               Some(contents), None, None, None)

PdfInputs ==
    {[EmptyDoc("pdf") EXCEPT !.pages = ps] :
        ps \in SeqsUpTo(PageInputs, MaxPages)}
    \cup {[EmptyDoc("pdf") EXCEPT !.pages = <<[text |-> None]>>,
                                 !.annotations = as] :
        as \in SeqsUpTo({NamedNote(<<"o", "l", "d">>), NamedNote(<<"n", "e", "w">>),
                         UnnamedNote(<<"o", "l", "d">>)}, MaxAnnots - 1)}

SheetInputs ==
    {Sheet(<<"S", "1">>, << <<Cell("A1", <<"int", 10>>, Font(FALSE))>> >>),
     Sheet(<<"S", "1">>, << <<Cell("A1", <<"int", 10>>, Font(TRUE)),
                      Cell("B1", <<"int", 5>>, MissingKey)>> >>),
     Sheet(<<"S", "1">>, << <<Cell("A1", <<"str", <<"1", "0">>>>, Font(FALSE)),
                      Cell("B1", <<"int", 5>>, MissingKey)>> >>),
     Sheet(<<"S", "2">>, << <<Cell("A1", <<"str", <<"a">>>>, MissingKey)>> >>),
     Sheet(<<"S", "2">>, << <<Cell("A1", <<"str", <<"a">>>>, NoneValue)>> >>),
     Sheet(<<"S", "2">>, << <<Cell("A1", <<"str", <<"b">>>>, Font(FALSE))>> >>)}

\* the sheets of a workbook have different names
XlsxInputs ==
    {[EmptyDoc("xlsx") EXCEPT !.sheets = ss] :
        ss \in {q \in SeqsUpTo(SheetInputs, MaxSheets) :
                   \A i, j \in 1..Len(q) : i # j => q[i].name # q[j].name}}
    \cup {[EmptyDoc("xlsx") EXCEPT !.sheets =
              <<Sheet(<<"S", "3">>, << <<Cell("A1", <<"int", 10>>, Font(TRUE))>> >>)>>]}

\* documents that carry, next to the lists of their kind, lists of the
\* other kinds: what n picks differs between the two documents of a kind
ForeignKeyInputs ==
    {[type |-> kind,
      paragraphs |-> <<Paragraph(TextA, Some(IF n = 1 THEN "Normal" ELSE "Title"),
                                 <<[Run(TextA, Some(n = 1)) EXCEPT
                                       !.italic = Some(n = 1)],
                                   Run(IF n = 1 THEN TextA ELSE TextB,
                                       Some(n = 1))>>)>>,
      tables |-> <<[rows |-> << <<[text |-> IF n = 1 THEN TextA ELSE TextB]>> >>]>>,
      images |-> <<Image(IF n = 1 THEN "corrupt" ELSE "png3", <<4 * n, 4>>),
                   Image(IF n = 1 THEN "png1" ELSE "png3", <<4 * n, 4>>)>>,
      pages |-> <<[text |-> Some(IF n = 1 THEN TextA ELSE TextB)]>>,
      annotations |-> <<NamedNote(IF n = 1 THEN <<"o", "l", "d">> ELSE <<"n", "e", "w">>)>>,
      sheets |-> <<Sheet(<<"S", "1">>,
                         << <<Cell("A1", <<"int", 10 * n>>, Font(n = 1))>> >>)>>] :
        kind \in {"docx", "pdf", "xlsx"}, n \in 1..2}

\* documents of a kind the detector does not know, and documents without
\* a 'type' key
UnknownKindInputs ==
    {[EmptyDoc(kind) EXCEPT !.paragraphs = ps] :
        kind \in {"txt", NoTypeKey},
        ps \in {<<>>, <<Paragraph(TextA, Some("Normal"), <<>>)>>}}
    \cup {EmptyDoc("odt")}

DocInputs ==
    DocxInputs \cup PdfInputs \cup XlsxInputs \cup ForeignKeyInputs
    \cup UnknownKindInputs

---------------------------------------------------------------------------
(* Inputs of the annotation comparator *)

LongX == [k \in 1..(AnnotPrefixLen + 1) |->
            IF k <= AnnotPrefixLen THEN "q" ELSE "x"]
LongY == [k \in 1..(AnnotPrefixLen + 1) |->
            IF k <= AnnotPrefixLen THEN "q" ELSE "y"]

BaseNote ==
    Annotation(Some(<<"n", "1">>), 1, Some(<<"T", "e", "x", "t">>), Some(<<10000, 20000>>),
               Some(<<10000, 20000, 30000, 40000>>), Some(<<"o", "l", "d">>),
               Some(<<"a", "n", "n">>), Some(<<"n", "o", "t", "e">>), Some(<<10000, 0, 0>>))

\* BaseNote with one compared field changed
Varied(field) ==
    IF field = "contents" THEN [BaseNote EXCEPT !.contents = Some(<<"n", "e", "w">>)]
    ELSE IF field = "rect" THEN [BaseNote EXCEPT !.rect = Some(<<10000, 20020>>)]
    ELSE IF field = "quadpoints" THEN [BaseNote EXCEPT !.quadpoints = None]
    ELSE IF field = "color" THEN [BaseNote EXCEPT !.color = Some(<<0, 10000, 0>>)]
    ELSE IF field = "subtype" THEN [BaseNote EXCEPT !.subtype = Some(<<"H", "i", "g", "h", "l", "i", "g", "h", "t">>)]
    ELSE IF field = "author" THEN [BaseNote EXCEPT !.author = Some(<<"b", "o", "b">>)]
    ELSE [BaseNote EXCEPT !.subject = None]

ComparedFields == <<"contents", "rect", "quadpoints", "color", "subtype",
                    "author", "subject">>

AnnotationInputs ==
    {BaseNote}
    \cup {Varied(ComparedFields[k]) : k \in 1..Len(ComparedFields)}
    \* the same note re-serialized: noise below the third decimal, "" for an
    \* absent subject
    \cup {[BaseNote EXCEPT !.rect = Some(<<10001, 19999>>),
                          !.color = Some(<<10003, 0, 0>>)]}
    \* the same note with a rect within the noise, a last quadpoint across a
    \* rounding boundary and a color of four components
    \cup {[BaseNote EXCEPT !.rect = Some(<<10002, 20000>>),
                          !.quadpoints = Some(<<10000, 20000, 30000, 40006>>),
                          !.color = Some(<<10000, 0, 0, 0>>)]}
    \* notes without a name
    \cup {Annotation(None, 1, Some(<<"H", "i", "g", "h", "l", "i", "g", "h", "t">>), Some(<<10000, 20000>>), None,
                     Some(LongX), Some(<<"a", "n", "n">>), None, None),
          Annotation(Some(<<>>), 1, Some(<<"H", "i", "g", "h", "l", "i", "g", "h", "t">>), Some(<<10001, 20000>>),
                     Some(<<10000, 20000>>), Some(LongY), Some(<<"b", "o", "b">>),
                     Some(<<"n", "o", "t", "e">>), Some(<<0, 0, 10000>>)),
          Annotation(None, 1, Some(<<"H", "i", "g", "h", "l", "i", "g", "h", "t">>), Some(<<10000, 20000>>), None,
                     Some(<<"o", "l", "d">>), None, None, None),
          Annotation(None, 2, None, None, None, None, None, None, None)}
    \* the note without a name on another page, of another subtype, and
    \* with a rect that rounds to other coordinates
    \cup {[UnnamedNote(<<"o", "l", "d">>) EXCEPT !.page_number = Some(2)],
          [UnnamedNote(<<"o", "l", "d">>) EXCEPT !.subtype = Some(<<"T", "e", "x", "t">>)],
          [UnnamedNote(<<"o", "l", "d">>) EXCEPT !.rect = Some(<<10006, 20000>>)]}

\* the notes that lists of two annotations or more are made of: two notes
\* with one name and two notes without a name
RepeatedNotes ==
    {BaseNote, Varied("contents"), UnnamedNote(<<"o", "l", "d">>),
     UnnamedNote(<<"n", "e", "w">>)}

\* every list of at most one annotation, and the longer lists of
\* RepeatedNotes
AnnotListInputs ==
    SeqsUpTo(AnnotationInputs, 1) \cup SeqsUpTo(RepeatedNotes, MaxAnnots)

AnnotDocInputs ==
    {[EmptyDoc("pdf") EXCEPT !.pages = <<[text |-> None], [text |-> None]>>,
                            !.annotations = as] :
        as \in AnnotListInputs}

---------------------------------------------------------------------------
(* The pipeline of compare_documents in app.py on two extracted documents: *)
(* the parser names the annotations, the detector compares.  The second    *)
(* call compares the same documents in the other direction.                *)

NoDiff ==
    /\ old = None
    /\ new = None
    /\ diff = None

\* no server is running
NoServer ==
    /\ uploads = None
    /\ requests = None

Init ==
    /\ pc = "extracted"
    /\ original \in DocInputs
    /\ revised \in DocInputs
    /\ changes = None
    /\ swapped = None
    /\ NoDiff
    /\ NoServer

InitAnnot ==
    /\ pc = "extracted"
    /\ original \in AnnotDocInputs
    /\ revised \in AnnotDocInputs
    /\ changes = None
    /\ swapped = None
    /\ NoDiff
    /\ NoServer

\* DocumentParser._parse_pdf: an annotation without /NM gets the fallback id
ParsedDoc(d) ==
    [d EXCEPT !.annotations =
        [k \in 1..Len(d.annotations) |-> ParsedAnnotation(d.annotations[k])]]

ParseAnnotationIds ==
    /\ pc = "extracted"
    /\ original' = ParsedDoc(original)
    /\ revised' = ParsedDoc(revised)
    /\ pc' = "parsed"
    /\ UNCHANGED <<changes, swapped, old, new, diff, uploads, requests>>

DetectChanges ==
    /\ pc \in {"extracted", "parsed"}
    /\ \E seed \in HashSeeds : changes' = detect_changes(original, revised, seed)
    /\ pc' = "detected"
    /\ UNCHANGED <<original, revised, swapped, old, new, diff, uploads,
                   requests>>

DetectSwapped ==
    /\ pc = "detected"
    /\ \E seed \in HashSeeds : swapped' = detect_changes(revised, original, seed)
    /\ pc' = "both"
    /\ UNCHANGED <<original, revised, changes, old, new, diff, uploads,
                   requests>>

Next == ParseAnnotationIds \/ DetectChanges \/ DetectSwapped

Spec == Init /\ [][Next]_vars

SpecAnnot == InitAnnot /\ [][Next]_vars

---------------------------------------------------------------------------
(* Claims about detect_changes *)

\* the kinds detect_changes knows
Kinds == {"docx", "pdf", "xlsx"}

\* the six lists of a report are empty
NoChanges(rep) == \A k \in 1..Len(Categories) : rep[Categories[k]] = <<>>

\* C1: comparing a document with a copy of itself returns a report whose
\* six lists are empty and whose total_changes is 0.
C1_NoOp ==
    (pc = "detected" /\ revised = original /\ original.type \in Kinds) =>
        /\ changes.status = "ok"
        /\ NoChanges(changes)
        /\ changes.summary.total_changes = 0

\* the reports returned so far
Reports ==
    (IF pc \in {"detected", "both"} THEN {changes} ELSE {})
    \cup (IF pc = "both" THEN {swapped} ELSE {})

CountsMatch(rep) ==
    /\ rep.summary.text_changes_count = Len(rep.text_changes)
    /\ rep.summary.formatting_changes_count = Len(rep.formatting_changes)
    /\ rep.summary.table_changes_count = Len(rep.table_changes)
    /\ rep.summary.image_changes_count = Len(rep.image_changes)
    /\ rep.summary.annotation_changes_count = Len(rep.annotation_changes)
    /\ rep.summary.structural_changes_count = Len(rep.structural_changes)
    /\ rep.summary.total_changes =
           Len(rep.text_changes) + Len(rep.formatting_changes)
           + Len(rep.table_changes) + Len(rep.image_changes)
           + Len(rep.annotation_changes) + Len(rep.structural_changes)

\* C2: in every report detect_changes returns, each count of the summary is
\* the length of its list and total_changes is the sum of the six lengths.
C2_SummaryCounts == \A rep \in Reports : rep.status = "ok" => CountsMatch(rep)

\* a report with records in three categories, or with annotation records
C2_Witness ==
    /\ pc = "detected"
    /\ changes.status = "ok"
    /\ \/ /\ changes.text_changes # <<>>
          /\ changes.formatting_changes # <<>>
          /\ changes.structural_changes # <<>>
          /\ changes.summary.total_changes >= 4
       \/ /\ changes.annotation_changes # <<>>
          /\ changes.text_changes # <<>>

\* the report of two documents of different kinds o and r
MismatchReport(rep, o, r) ==
    /\ rep.status = "ok"
    /\ rep.structural_changes =
           <<[type |-> "document_type_change", original_type |-> o.type,
              revised_type |-> r.type]>>
    /\ rep.text_changes = <<>>
    /\ rep.formatting_changes = <<>>
    /\ rep.table_changes = <<>>
    /\ rep.image_changes = <<>>
    /\ rep.annotation_changes = <<>>
    /\ rep.summary.total_changes = 1

\* C3: for two documents that carry different kinds detect_changes does
\* not raise
\* and returns one document_type_change record holding both types, five
\* other lists that are empty and a total of 1, whatever the documents hold.
C3_KindMismatch ==
    (original.type # revised.type /\ ~KindRaises(original, revised)) =>
        /\ pc \in {"detected", "both"}
               => MismatchReport(changes, original, revised)
        /\ pc = "both" => MismatchReport(swapped, revised, original)

\* a docx with paragraphs compared with a pdf that holds annotations
C3_Witness ==
    /\ pc = "detected"
    /\ original.type = "docx"
    /\ original.paragraphs # <<>>
    /\ revised.type = "pdf"
    /\ revised.annotations # <<>>
    /\ changes.summary.total_changes = 1

ChangeTypes == {"added", "deleted", "modified"}

\* the records of the six lists of a report
AllRecords(rep) ==
    UNION {Range(rep[Categories[k]]) : k \in 1..Len(Categories)}

\* the change_type of an element by the sides that hold it
BySide(inOriginal, inRevised) ==
    IF ~inOriginal THEN "added"
    ELSE IF ~inRevised THEN "deleted"
    ELSE "modified"

\* C4: every record of every list carries one change_type among added,
\* deleted and modified, and it is the one the sides holding the element
\* give: only revised is added, only original is deleted, both (unequal) is
\* modified.  The side rule is stated for the paragraphs of a docx, whose
\* record names the index of the paragraph.
C4_ChangeTypeBySide ==
    (pc = "detected" /\ changes.status = "ok") =>
        /\ \A k \in 1..Len(changes.text_changes) :
             changes.text_changes[k].document_type = "docx" =>
                changes.text_changes[k].change_type =
                    BySide(changes.text_changes[k].paragraph_index
                               < Len(original.paragraphs),
                           changes.text_changes[k].paragraph_index
                               < Len(revised.paragraphs))
        /\ \A rec \in AllRecords(changes) :
             /\ "change_type" \in DOMAIN rec
             /\ rec.change_type \in ChangeTypes

\* what an added or deleted record says of its element: the kind of the
\* element, where it is and what it holds
Payload(rec) ==
    IF rec.type = "text_change"
    THEN (IF rec.document_type = "docx"
          THEN <<"paragraph", rec.paragraph_index, rec.content>>
          ELSE <<"sentence", rec.page_number, rec.content>>)
    ELSE IF rec.type \in {"sheet_added", "sheet_deleted"}
    THEN <<"sheet", rec.sheet_name>>
    ELSE IF rec.type \in {"cell_added", "cell_deleted"}
    THEN <<"cell", rec.sheet_name, rec.coordinate, rec.value>>
    ELSE <<"annotation", rec.id, rec.page_number, rec.subtype, rec.content,
           rec.rect, rec.quadpoints, rec.author, rec.subject, rec.color>>

\* the payloads of the records of a report that carry change_type ct
Payloads(rep, ct) ==
    {Payload(rec) : rec \in {x \in Range(rep.text_changes)
                                    \cup Range(rep.annotation_changes) :
                                 x.change_type = ct}}

\* C5: for two documents A, B of one kind, detect_changes(A, B) holds an
\* added record for an element exactly when detect_changes(B, A) holds a
\* deleted record with the same payload, and the other way round.
C5_AddDeleteSymmetry ==
    (pc = "both" /\ original.type = revised.type
     /\ changes.status = "ok" /\ swapped.status = "ok") =>
        /\ Payloads(changes, "added") = Payloads(swapped, "deleted")
        /\ Payloads(changes, "deleted") = Payloads(swapped, "added")

---------------------------------------------------------------------------
(* Claims about the annotations *)

StateAnnotations == Range(original.annotations) \cup Range(revised.annotations)

Unnamed(a) == OrElse(a.id, <<>>) = <<>>

\* rect rounded to 3 decimals; no rect is no coordinate
RoundedRect(a) ==
    IF a.rect = None THEN <<>>
    ELSE [k \in 1..Len(a.rect[1]) |-> Round3(a.rect[1][k])]

\* the first 64 characters of contents
ContentsPrefix(a) ==
    SubSeq(OrElse(a.contents, <<>>), 1,
           Min(Len(OrElse(a.contents, <<>>)), AnnotPrefixLen))

\* a and b agree on the four inputs of the fallback key
SameKeyInputs(a, b) ==
    /\ a.page_number = b.page_number
    /\ OrElse(a.subtype, <<>>) = OrElse(b.subtype, <<>>)
    /\ RoundedRect(a) = RoundedRect(b)
    /\ ContentsPrefix(a) = ContentsPrefix(b)

C9_SameFallbackId ==
    [][(pc = "extracted" /\ pc' = "parsed") =>
        \A k \in 1..Len(original.annotations) :
            Unnamed(original.annotations[k]) =>
                original'.annotations[k].id =
                    Some(_annot_key(original.annotations[k]))]_vars

\* the keys of the map built from a list of annotations
KeysOf(list) == {_annot_key(list[n]) : n \in 1..Len(list)}

\* the annotation that map holds under key k: the last one of the list
HeldUnder(list, k) ==
    list[SetMax({n \in 1..Len(list) : _annot_key(list[n]) = k})]

\* a list of floats rounded to 3 decimals
RoundedTo3(v) ==
    IF v = None THEN None ELSE Some([k \in 1..Len(v[1]) |-> Round3(v[1][k])])

\* field f of o and r differs: the lists of floats after rounding, the
\* texts with None read as ""
FieldDiffers(f, o, r) ==
    IF f \in {"rect", "quadpoints", "color"}
    THEN RoundedTo3(o[f]) # RoundedTo3(r[f])
    ELSE OrElse(o[f], <<>>) # OrElse(r[f], <<>>)

\* the differing fields, each once, in the fixed order
DifferingFields(o, r) ==
    SelectSeq(ComparedFields, LAMBDA f : FieldDiffers(f, o, r))

\* the annotation records of a report that name key k
RecordsOfKey(rep, k) == SelectSeq(rep.annotation_changes, LAMBDA rec : rec.id = k)

\* the records key k must have
KeyRecordsRight(k, okeys, rkeys, mine) ==
    IF k \notin okeys
    THEN Len(mine) = 1 /\ mine[1].change_type = "added"
    ELSE IF k \notin rkeys
    THEN Len(mine) = 1 /\ mine[1].change_type = "deleted"
    ELSE IF DifferingFields(HeldUnder(original.annotations, k),
                            HeldUnder(revised.annotations, k)) = <<>>
    THEN mine = <<>>
    ELSE /\ Len(mine) = 1
         /\ mine[1].change_type = "modified"
         /\ mine[1].changed_fields =
                DifferingFields(HeldUnder(original.annotations, k),
                                HeldUnder(revised.annotations, k))

\* C10: for two pdf documents the annotation records are, per key, one
\* added record for a key of revised only, one deleted record for a key of
\* original only, and for a key of both one modified record if one of
\* contents, rect, quadpoints, color, subtype, author, subject differs and
\* no record otherwise; changed_fields lists the differing fields, each
\* once, in that order.
C10_AnnotationRecords ==
    (pc = "detected" /\ original.type = "pdf" /\ revised.type = "pdf") =>
        /\ changes.status = "ok"
        /\ \A n \in 1..Len(changes.annotation_changes) :
             changes.annotation_changes[n].id
                 \in KeysOf(original.annotations) \cup KeysOf(revised.annotations)
        /\ \A k \in KeysOf(original.annotations) \cup KeysOf(revised.annotations) :
             KeyRecordsRight(k, KeysOf(original.annotations),
                             KeysOf(revised.annotations),
                             RecordsOfKey(changes, k))

\* a note whose contents alone changed gives changed_fields = [contents],
\* next to a note of revised only
C10_Witness ==
    /\ pc = "detected"
    /\ original.annotations = <<BaseNote>>
    /\ Len(revised.annotations) = 2
    /\ revised.annotations[1] = Varied("contents")
    /\ Unnamed(revised.annotations[2])
    /\ Len(changes.annotation_changes) = 2
    /\ changes.annotation_changes[1].change_type = "added"
    /\ changes.annotation_changes[2].change_type = "modified"
    /\ changes.annotation_changes[2].changed_fields = <<"contents">>

---------------------------------------------------------------------------
(* Claims about the text comparators *)

\* detect_changes(original, revised) returned a report of two documents of
\* one kind
ReportOf(kind) ==
    /\ pc = "detected"
    /\ original.type = kind
    /\ revised.type = kind
    /\ changes.status = "ok"

SheetNames(doc) == {doc.sheets[k].name : k \in 1..Len(doc.sheets)}

\* the sheet of that name (the names of a workbook are different)
SheetNamed(doc, name) == CHOOSE s \in Range(doc.sheets) : s.name = name

Coordinates(sh) == {c.coordinate : c \in Range(SheetCells(sh))}

\* the cell at that coordinate (the coordinates of a sheet are different)
CellAt(sh, coord) == CHOOSE c \in Range(SheetCells(sh)) : c.coordinate = coord

\* str(v) of a cell value
Stringified(v) ==
    IF v = None THEN <<>>
    ELSE IF v[1] = "int" THEN IntToStr(v[2])
    ELSE v[2]

\* the types of the records of list tc that name the sheet, in order
TypesAbout(tc, name) ==
    LET mine == SelectSeq(tc, LAMBDA rec : rec.sheet_name = name)
    IN [k \in 1..Len(mine) |-> mine[k].type]

\* the types of the records of list tc that name the sheet and the
\* coordinate, in order
TypesAt(tc, name, coord) ==
    LET mine == SelectSeq(tc, LAMBDA rec : /\ rec.sheet_name = name
                                           /\ "coordinate" \in DOMAIN rec
                                           /\ rec.coordinate = coord)
    IN [k \in 1..Len(mine) |-> mine[k].type]

\* the records a coordinate of a sheet held by both documents must have
CellTypes(os, rs, coord) ==
    IF coord \notin Coordinates(os) THEN <<"cell_added">>
    ELSE IF coord \notin Coordinates(rs) THEN <<"cell_deleted">>
    ELSE IF Stringified(CellAt(os, coord).value)
            # Stringified(CellAt(rs, coord).value)
    THEN <<"cell_modified">>
    ELSE <<>>

\* the records of list tc about a sheet held by both documents are the
\* records of its coordinates
SharedSheetRight(tc, os, rs, name) ==
    /\ \A coord \in Coordinates(os) \cup Coordinates(rs) :
          TypesAt(tc, name, coord) = CellTypes(os, rs, coord)
    /\ \A k \in 1..Len(tc) :
          tc[k].sheet_name = name =>
             /\ "coordinate" \in DOMAIN tc[k]
             /\ tc[k].coordinate \in Coordinates(os) \cup Coordinates(rs)

XlsxTextRight(tc, o, r) ==
    /\ \A k \in 1..Len(tc) : tc[k].sheet_name \in SheetNames(o) \cup SheetNames(r)
    /\ \A name \in SheetNames(r) \ SheetNames(o) :
          TypesAbout(tc, name) = <<"sheet_added">>
    /\ \A name \in SheetNames(o) \ SheetNames(r) :
          TypesAbout(tc, name) = <<"sheet_deleted">>
    /\ \A name \in SheetNames(o) \cap SheetNames(r) :
          SharedSheetRight(tc, SheetNamed(o, name), SheetNamed(r, name), name)

\* C11: for two xlsx documents text_changes holds one sheet_added record
\* per sheet name of revised only, one sheet_deleted record per sheet name
\* of original only and no cell record for those sheets, and for a sheet
\* name of both one cell_added or cell_deleted record per coordinate of one
\* side only and one cell_modified record per coordinate of both sides whose
\* stringified values differ; nothing else, wherever the sheets stand.
C11_XlsxTextRecords ==
    ReportOf("xlsx") => XlsxTextRight(changes.text_changes, original, revised)

\* a sheet of both documents that stands first in one and second in the
\* other, with a cell added and a cell whose int became the text of the
\* same digits, next to a sheet of revised only
C11_Witness ==
    /\ ReportOf("xlsx")
    /\ Len(original.sheets) = 1
    /\ Len(revised.sheets) = 2
    /\ revised.sheets[2].name = original.sheets[1].name
    /\ CellAt(original.sheets[1], "A1").value
           # CellAt(revised.sheets[2], "A1").value
    /\ TypesAt(changes.text_changes, original.sheets[1].name, "A1") = <<>>
    /\ TypesAt(changes.text_changes, original.sheets[1].name, "B1")
           = <<"cell_added">>
    /\ TypesAbout(changes.text_changes, revised.sheets[1].name)
           = <<"sheet_added">>

\* the text records of a report that name paragraph i
RecordsOfParagraph(rep, i) ==
    SelectSeq(rep.text_changes, LAMBDA rec : rec.paragraph_index = i)

\* the one record paragraph i must have, or none
ParagraphRight(mine, i, op, rp) ==
    IF i >= Len(op)
    THEN /\ Len(mine) = 1
         /\ mine[1].change_type = "added"
         /\ mine[1].content = rp[i + 1].text
    ELSE IF i >= Len(rp)
    THEN /\ Len(mine) = 1
         /\ mine[1].change_type = "deleted"
         /\ mine[1].content = op[i + 1].text
    ELSE IF op[i + 1].text # rp[i + 1].text
    THEN /\ Len(mine) = 1
         /\ mine[1].change_type = "modified"
         /\ mine[1].old_text = op[i + 1].text
         /\ mine[1].new_text = rp[i + 1].text
         /\ {"content_html", "added_terms", "deleted_terms"}
                \subseteq DOMAIN mine[1]
    ELSE mine = <<>>

\* C12: for two docx documents and every paragraph index i below the
\* longer length, an index out of range on one side gives one added
\* (missing in original) or deleted (missing in revised) record with the
\* full text of the paragraph and paragraph_index i, an index in range on
\* both sides with unequal texts gives one modified record with old_text,
\* new_text, markup and term lists, and equal texts give none; for all
\* paragraph texts, the empty one included.
C12_ParagraphRecords ==
    ReportOf("docx") =>
        \A i \in 0..(Max(Len(original.paragraphs), Len(revised.paragraphs)) - 1) :
            ParagraphRight(RecordsOfParagraph(changes, i), i,
                           original.paragraphs, revised.paragraphs)

\* what a text record says: its change_type and its sentence or sentences
RecordShape(rec) ==
    IF rec.change_type = "modified"
    THEN <<"modified", rec.old_text, rec.new_text>>
    ELSE <<rec.change_type, rec.content>>

\* record k of a span of m old sentences olds and n new sentences news: the
\* first min(m, n) pair the k-th old with the k-th new sentence, the rest
\* are the sentences left over on the longer side
SpanShape(olds, news, k) ==
    IF k <= Len(olds) /\ k <= Len(news) THEN <<"modified", olds[k], news[k]>>
    ELSE IF k <= Len(olds) THEN <<"deleted", olds[k]>>
    ELSE <<"added", news[k]>>

\* the shapes of the records of the non-equal spans of ops, in order
SpanShapes(a, b, ops) ==
    Concat([n \in 1..Len(ops) |->
        IF ops[n].tag = "equal" THEN <<>>
        ELSE [k \in 1..Max(ops[n].i2 - ops[n].i1, ops[n].j2 - ops[n].j1) |->
                 SpanShape(Slice(a, ops[n].i1, ops[n].i2),
                           Slice(b, ops[n].j1, ops[n].j2), k)]])

\* the sentences of page index i of a document, none if it has no such page
SentencesOfPage(doc, i) ==
    IF i < Len(doc.pages)
    THEN _split_sentences(OrElse(doc.pages[i + 1].text, <<>>))
    ELSE <<>>

\* the text records of page index i are those of the spans of the opcodes
PageRecordsRight(mine, a, b) ==
    [k \in 1..Len(mine) |-> RecordShape(mine[k])]
        = SpanShapes(a, b, get_opcodes(a, b))

\* C20: for two pdf documents and each page index the opcode spans over the
\* two sentence sequences give: one deleted record per sentence of a delete
\* span, one added record per sentence of an insert span, and for a replace
\* span of m old and n new sentences min(m, n) modified records pairing the
\* k-th old with the k-th new sentence, then m - min(m, n) deleted and
\* n - min(m, n) added records; every record carries page_number = index + 1
\* and equal spans give nothing.
C20_PdfSpanRecords ==
    ReportOf("pdf") =>
        /\ \A k \in 1..Len(changes.text_changes) :
              changes.text_changes[k].page_number
                  \in 1..Max(Len(original.pages), Len(revised.pages))
        /\ \A i \in 0..(Max(Len(original.pages), Len(revised.pages)) - 1) :
              PageRecordsRight(
                  SelectSeq(changes.text_changes,
                            LAMBDA rec : rec.page_number = i + 1),
                  SentencesOfPage(original, i), SentencesOfPage(revised, i))

\* a second page whose sentences align as an equal span and a replace span
\* of two old sentences and one new one: a modified and a deleted record
C20_Witness ==
    /\ ReportOf("pdf")
    /\ Len(original.pages) = 2
    /\ Len(revised.pages) = 2
    /\ \E n \in 1..Len(get_opcodes(SentencesOfPage(original, 1),
                                  SentencesOfPage(revised, 1))) :
          LET op == get_opcodes(SentencesOfPage(original, 1),
                                SentencesOfPage(revised, 1))[n]
          IN op.tag = "replace" /\ op.i2 - op.i1 = 2 /\ op.j2 - op.j1 = 1
    /\ \E k \in 1..(Len(changes.text_changes) - 1) :
          /\ changes.text_changes[k].page_number = 2
          /\ changes.text_changes[k].change_type = "modified"
          /\ changes.text_changes[k + 1].page_number = 2
          /\ changes.text_changes[k + 1].change_type = "deleted"

---------------------------------------------------------------------------
(* Claims about the structural comparator and the dispatch by kind *)

\* the name of the count record of a kind
CountRecordType(kind) ==
    IF kind = "docx" THEN "paragraph_count_change"
    ELSE IF kind = "pdf" THEN "page_count_change"
    ELSE "sheet_count_change"

\* the number of paragraphs, pages or sheets of a document of that kind
UnitCount(doc, kind) ==
    IF kind = "docx" THEN Len(doc.paragraphs)
    ELSE IF kind = "pdf" THEN Len(doc.pages)
    ELSE Len(doc.sheets)

StructureRight(sc, o, r, kind) ==
    IF UnitCount(o, kind) = UnitCount(r, kind) THEN sc = <<>>
    ELSE /\ Len(sc) = 1
         /\ sc[1].type = CountRecordType(kind)
         /\ sc[1].original_count = UnitCount(o, kind)
         /\ sc[1].revised_count = UnitCount(r, kind)

\* C13: for two documents of one kind structural_changes holds one count
\* record (paragraph_count_change for docx, page_count_change for pdf,
\* sheet_count_change for xlsx) with the original and the revised count
\* when the numbers of paragraphs, pages or sheets differ, and nothing when
\* they are equal.
C13_CountRecord ==
    \A kind \in Kinds :
        /\ ReportOf(kind)
               => StructureRight(changes.structural_changes, original,
                                 revised, kind)
        /\ (pc = "both" /\ original.type = kind /\ revised.type = kind
            /\ swapped.status = "ok")
               => StructureRight(swapped.structural_changes, revised,
                                 original, kind)

\* a pdf that lost a page: one page_count_change from 2 to 1
C13_Witness ==
    /\ ReportOf("pdf")
    /\ Len(original.pages) = 2
    /\ Len(revised.pages) = 1
    /\ Len(changes.structural_changes) = 1
    /\ changes.structural_changes[1].type = "page_count_change"
    /\ changes.structural_changes[1].original_count = 2
    /\ changes.structural_changes[1].revised_count = 1

\* C14: a comparator that does not apply to the kind of the documents
\* contributes an empty list and does not raise: formatting_changes,
\* table_changes and image_changes are empty for two pdf documents,
\* table_changes, image_changes and annotation_changes for two xlsx
\* documents and annotation_changes for two docx documents, whatever other
\* keys the documents carry.
C14_InapplicableEmpty ==
    /\ ReportOf("pdf") =>
          /\ changes.formatting_changes = <<>>
          /\ changes.table_changes = <<>>
          /\ changes.image_changes = <<>>
    /\ ReportOf("xlsx") =>
          /\ changes.table_changes = <<>>
          /\ changes.image_changes = <<>>
          /\ changes.annotation_changes = <<>>
    /\ ReportOf("docx") => changes.annotation_changes = <<>>

\* two pdf documents that carry different paragraphs, tables and images:
\* the page texts are compared, the foreign lists are not
C14_Witness ==
    /\ ReportOf("pdf")
    /\ original.paragraphs # revised.paragraphs
    /\ original.tables # revised.tables
    /\ original.images # revised.images
    /\ changes.text_changes # <<>>
    /\ changes.table_changes = <<>>

\* C15: when the kind of either document is missing or is not one of
\* docx, pdf and xlsx, also when both documents carry the same unknown
\* kind, detect_changes signals an error and returns no report.
C15_InvalidKindFails ==
    (pc = "detected" /\ (original.type \notin Kinds \/ revised.type \notin Kinds))
        => changes.status = "raised"

---------------------------------------------------------------------------
(* Claims about absent fields, purity and images *)

OptionalAnnotFields == {"rect", "quadpoints", "color", "author", "subject"}
StyleDescriptors == {"font", "fill", "border"}

\* a modified annotation record lists no field that both annotations lack
AnnotAbsentRight(rec, o, r) ==
    rec.change_type = "modified" =>
        \A f \in OptionalAnnotFields :
            (o[f] = None /\ r[f] = None) => f \notin Range(rec.changed_fields)

\* a formatting record of a cell lists no descriptor that both cells lack
CellAbsentRight(rec, oc, rc) ==
    \A desc \in StyleDescriptors :
        (oc[desc].has # "dict" /\ rc[desc].has # "dict") =>
            \A n \in 1..Len(rec.changes) : rec.changes[n][1] # desc

\* C16: an optional field that is absent, its key missing or its value
\* None, is no error and equals absent: detect_changes returns a report
\* when rect, quadpoints, color, author or subject of an annotation or font,
\* fill or border of a spreadsheet cell are absent on one side or both, and
\* no record reports a field that is absent on both sides as changed.
C16_AbsentFieldsOk ==
    (pc = "detected" /\ original.type = revised.type
     /\ original.type \in {"pdf", "xlsx"}) =>
        /\ changes.status = "ok"
        /\ \A n \in 1..Len(changes.annotation_changes) :
              LET rec == changes.annotation_changes[n]
              IN AnnotAbsentRight(rec, HeldUnder(original.annotations, rec.id),
                                  HeldUnder(revised.annotations, rec.id))
        /\ \A n \in 1..Len(changes.formatting_changes) :
              LET rec == changes.formatting_changes[n]
              IN CellAbsentRight(rec,
                    CellAt(SheetNamed(original, rec.sheet_name), rec.coordinate),
                    CellAt(SheetNamed(revised, rec.sheet_name), rec.coordinate))

\* C17: detect_changes is a function of its two inputs: the report a call
\* returns is the report every call on the same two documents returns, in
\* whatever process it runs, the order of the records of text_changes and
\* annotation_changes included.
C17_PureFunction ==
    [][(pc # "detected" /\ pc' = "detected") =>
        \A seed \in HashSeeds :
            detect_changes(original, revised, seed) = changes']_vars

\* the score of an image pair: the similarity of the two pictures, 0.0 if
\* a payload does not decode
ImageScore(oi, ri) ==
    IF oi.data \in DecodablePayloads /\ ri.data \in DecodablePayloads
    THEN Ssim(oi.data, ri.data)
    ELSE 0

\* the records of a report about image i, of one type
ImageRecords(rep, i, type) ==
    SelectSeq(rep.image_changes,
              LAMBDA rec : rec.type = type /\ rec.image_index = i)

\* image i has its content record, with the score, exactly below 0.95, and
\* its size record exactly when the sizes differ
ImagePairRight(rep, i, oi, ri) ==
    /\ ImageRecords(rep, i, "image_content_change") =
          (IF ImageScore(oi, ri) < 95
           THEN <<[type |-> "image_content_change", image_index |-> i,
                   similarity |-> ImageScore(oi, ri), document_type |-> "docx"]>>
           ELSE <<>>)
    /\ Len(ImageRecords(rep, i, "image_size_change"))
          = (IF oi.size # ri.size THEN 1 ELSE 0)

\* C19: for every position-aligned image pair of two docx documents an
\* image_content_change record with the similarity is emitted exactly when
\* the similarity is strictly below 0.95; a payload that does not decode
\* scores 0.0, gives such a record and does not abort the comparison: the
\* records of the other images and of the other categories are produced.
C19_ImageContentRecords ==
    (pc = "detected" /\ original.type = "docx" /\ revised.type = "docx") =>
        /\ changes.status = "ok"
        /\ \A i \in 0..(Min(Len(original.images), Len(revised.images)) - 1) :
              ImagePairRight(changes, i, original.images[i + 1],
                             revised.images[i + 1])

\* a payload that does not decode next to a pair that scores the threshold
\* itself, in documents whose runs and tables differ as well: one content
\* record with 0.0, none for the other pair, and the records of the other
\* categories
C19_Witness ==
    /\ ReportOf("docx")
    /\ Len(original.images) = 2
    /\ Len(revised.images) = 2
    /\ original.images[1].data = "corrupt"
    /\ ImageScore(original.images[2], revised.images[2]) = 95
    /\ Len(ImageRecords(changes, 0, "image_content_change")) = 1
    /\ ImageRecords(changes, 0, "image_content_change")[1].similarity = 0
    /\ ImageRecords(changes, 1, "image_content_change") = <<>>
    /\ ImageRecords(changes, 1, "image_size_change") # <<>>
    /\ changes.formatting_changes # <<>>
    /\ changes.table_changes # <<>>

---------------------------------------------------------------------------
(* Claims about the formatting and table comparators *)

\* some attribute of font, fill or border differs between two cells; an
\* absent descriptor reads None for each of its attributes
CellFormatDiffers(oc, rc) ==
    \/ \E a \in Range(FontAttrs) : StyleAttr(oc.font, a) # StyleAttr(rc.font, a)
    \/ StyleAttr(oc.fill, "fg_color") # StyleAttr(rc.fill, "fg_color")
    \/ \E b \in Range(BorderSides) :
          StyleAttr(oc.border, b) # StyleAttr(rc.border, b)

\* the cell_formatting_change records of a coordinate of a sheet
CellFormatRecords(rep, name, coord) ==
    {n \in 1..Len(rep.formatting_changes) :
        /\ rep.formatting_changes[n].type = "cell_formatting_change"
        /\ rep.formatting_changes[n].sheet_name = name
        /\ rep.formatting_changes[n].coordinate = coord}

\* C21: for two xlsx documents the sheets are paired for the formatting
\* comparison by position and not by name: for every position below the
\* shorter sheet count and every coordinate that both paired sheets hold
\* with the same value there is exactly one cell_formatting_change record
\* if an attribute of font, fill or border differs, and none otherwise.
C21_XlsxFormattingByPosition ==
    ReportOf("xlsx") =>
        \A k \in 1..Min(Len(original.sheets), Len(revised.sheets)) :
            \A coord \in Coordinates(original.sheets[k])
                           \cap Coordinates(revised.sheets[k]) :
                LET oc == CellAt(original.sheets[k], coord)
                    rc == CellAt(revised.sheets[k], coord)
                IN oc.value = rc.value =>
                      Cardinality(CellFormatRecords(changes,
                                      original.sheets[k].name, coord))
                          = IF CellFormatDiffers(oc, rc) THEN 1 ELSE 0

\* the attributes in which two runs differ
DifferingRunAttrs(orun, rrun) == {a \in Range(RunAttrs) : orun[a] # rrun[a]}

\* a run_formatting_change record is about a run pair of two aligned
\* paragraphs, of equal text, and lists each differing attribute once
RunRecordRight(rec, op, rp) ==
    /\ rec.paragraph_index < Min(Len(op), Len(rp))
    /\ LET oruns == op[rec.paragraph_index + 1].runs
           rruns == rp[rec.paragraph_index + 1].runs
       IN /\ rec.run_index < Min(Len(oruns), Len(rruns))
          /\ oruns[rec.run_index + 1].text = rruns[rec.run_index + 1].text
          /\ DifferingRunAttrs(oruns[rec.run_index + 1],
                               rruns[rec.run_index + 1]) # {}
          /\ {rec.changes[n][1] : n \in 1..Len(rec.changes)}
                = DifferingRunAttrs(oruns[rec.run_index + 1],
                                    rruns[rec.run_index + 1])
          /\ Len(rec.changes)
                = Cardinality(DifferingRunAttrs(oruns[rec.run_index + 1],
                                                rruns[rec.run_index + 1]))

\* C22: for two docx documents a run_formatting_change record is emitted
\* for a paragraph/run index pair only when the two runs have equal text and
\* one of bold, italic, underline, font_name, font_size, font_color differs,
\* at most one record per pair, listing exactly the differing attributes;
\* run pairs of different text and paragraphs beyond the shorter document
\* never produce a formatting record.
C22_RunFormattingRecords ==
    ReportOf("docx") =>
        /\ \A n \in 1..Len(changes.formatting_changes) :
              LET rec == changes.formatting_changes[n]
              IN /\ rec.paragraph_index
                       < Min(Len(original.paragraphs), Len(revised.paragraphs))
                 /\ rec.type = "run_formatting_change" =>
                       RunRecordRight(rec, original.paragraphs,
                                      revised.paragraphs)
        /\ \A n, m \in 1..Len(changes.formatting_changes) :
              LET rec == changes.formatting_changes[n]
                  other == changes.formatting_changes[m]
              IN (/\ rec.type = "run_formatting_change"
                  /\ other.type = "run_formatting_change"
                  /\ rec.paragraph_index = other.paragraph_index
                  /\ rec.run_index = other.run_index) => n = m

\* a paragraph pair whose first runs have equal text and differ in two
\* attributes, reported with both, and whose second runs differ in text
\* and in bold, not reported
C22_Witness ==
    /\ ReportOf("docx")
    /\ Len(original.paragraphs) = 1
    /\ Len(revised.paragraphs) = 1
    /\ Len(original.paragraphs[1].runs) = 2
    /\ Len(revised.paragraphs[1].runs) = 2
    /\ original.paragraphs[1].runs[2].text # revised.paragraphs[1].runs[2].text
    /\ original.paragraphs[1].runs[2].bold # revised.paragraphs[1].runs[2].bold
    /\ \E n \in 1..Len(changes.formatting_changes) :
          /\ changes.formatting_changes[n].type = "run_formatting_change"
          /\ changes.formatting_changes[n].run_index = 0
          /\ Len(changes.formatting_changes[n].changes) = 2
    /\ \A n \in 1..Len(changes.formatting_changes) :
          changes.formatting_changes[n].type = "run_formatting_change"
              => changes.formatting_changes[n].run_index # 1

\* the records of table_changes of a type
TableCountRecords(tc) ==
    {n \in 1..Len(tc) : tc[n].type = "table_count_change"}

RowCountRecords(tc, i) ==
    {n \in 1..Len(tc) :
        tc[n].type = "table_row_count_change" /\ tc[n].table_index = i}

CellRecords(tc, i, j, k) ==
    {n \in 1..Len(tc) :
        /\ tc[n].type = "table_cell_change"
        /\ tc[n].table_index = i
        /\ tc[n].row_index = j
        /\ tc[n].cell_index = k}

\* the records of table pair i: a row count record iff the row counts
\* differ, and per row and cell position of both tables a cell record iff
\* the texts differ
TablePairRight(tc, i, ot, rt) ==
    /\ Cardinality(RowCountRecords(tc, i))
          = IF Len(ot.rows) # Len(rt.rows) THEN 1 ELSE 0
    /\ \A n \in RowCountRecords(tc, i) :
          tc[n].original_rows = Len(ot.rows) /\ tc[n].revised_rows = Len(rt.rows)
    /\ \A j \in 1..Min(Len(ot.rows), Len(rt.rows)) :
          \A k \in 1..Min(Len(ot.rows[j]), Len(rt.rows[j])) :
              /\ Cardinality(CellRecords(tc, i, j - 1, k - 1))
                    = IF ot.rows[j][k].text # rt.rows[j][k].text THEN 1 ELSE 0
              /\ \A n \in CellRecords(tc, i, j - 1, k - 1) :
                    /\ tc[n].old_text = ot.rows[j][k].text
                    /\ tc[n].new_text = rt.rows[j][k].text

\* a record of table_changes is about the counts or about a position that
\* both documents hold
TableRecordInRange(rec, ot, rt) ==
    \/ rec.type = "table_count_change"
    \/ /\ rec.type = "table_row_count_change"
       /\ rec.table_index < Min(Len(ot), Len(rt))
    \/ /\ rec.type = "table_cell_change"
       /\ rec.table_index < Min(Len(ot), Len(rt))
       /\ rec.row_index < Min(Len(ot[rec.table_index + 1].rows),
                              Len(rt[rec.table_index + 1].rows))
       /\ rec.cell_index
             < Min(Len(ot[rec.table_index + 1].rows[rec.row_index + 1]),
                   Len(rt[rec.table_index + 1].rows[rec.row_index + 1]))

\* C23: for two docx documents table_changes contains exactly: one
\* table_count_change if the table counts differ; per table position below
\* the shorter count one table_row_count_change if the row counts differ;
\* and per row and cell position present in both tables one
\* table_cell_change if and only if the two cell texts differ; rows and
\* cells beyond the shorter side produce no cell record.
C23_TableRecords ==
    ReportOf("docx") =>
        /\ Cardinality(TableCountRecords(changes.table_changes))
              = IF Len(original.tables) # Len(revised.tables) THEN 1 ELSE 0
        /\ \A n \in TableCountRecords(changes.table_changes) :
              /\ changes.table_changes[n].original_count = Len(original.tables)
              /\ changes.table_changes[n].revised_count = Len(revised.tables)
        /\ \A i \in 1..Min(Len(original.tables), Len(revised.tables)) :
              TablePairRight(changes.table_changes, i - 1,
                             original.tables[i], revised.tables[i])
        /\ \A n \in 1..Len(changes.table_changes) :
              TableRecordInRange(changes.table_changes[n], original.tables,
                                 revised.tables)

\* a table of one row of two cells against a table of two rows of one
\* cell: the row counts differ, the first cells differ, and the second
\* cell and the second row have no partner
C23_Witness ==
    /\ ReportOf("docx")
    /\ Len(original.tables) = 1
    /\ Len(revised.tables) = 1
    /\ Len(original.tables[1].rows) = 1
    /\ Len(revised.tables[1].rows) = 2
    /\ Len(original.tables[1].rows[1]) = 2
    /\ Len(revised.tables[1].rows[1]) = 1
    /\ original.tables[1].rows[1][1].text # revised.tables[1].rows[1][1].text
    /\ Len(changes.table_changes) = 2
    /\ changes.table_changes[1].type = "table_row_count_change"
    /\ changes.table_changes[2].type = "table_cell_change"

---------------------------------------------------------------------------
(* Claims about the rounding and the keys of annotations *)

NumericFields == {"rect", "quadpoints", "color"}

\* the number of 1e-3 units nearest to n 1e-4 units (n does not lie halfway)
NearestThousandth(n) ==
    CHOOSE m \in (n \div 10)..(n \div 10 + 1) : 10 * m - n \in -4..4

\* two optional lists of numbers are equal after rounding each number to 3
\* decimal places
SameAfterRounding(v, w) ==
    IF v = None \/ w = None THEN v = w
    ELSE /\ Len(v[1]) = Len(w[1])
         /\ \A n \in 1..Len(v[1]) :
               NearestThousandth(v[1][n]) = NearestThousandth(w[1][n])

\* the records of key k report field f as changed
ReportedChanged(rep, k, f) ==
    \E n \in 1..Len(rep.annotation_changes) :
        /\ rep.annotation_changes[n].id = k
        /\ rep.annotation_changes[n].change_type = "modified"
        /\ f \in Range(rep.annotation_changes[n].changed_fields)

\* C24: rect, quadpoints and color of two annotations with the same key are
\* compared after rounding each number to 3 decimal places: lists that are
\* equal after rounding are never reported as changed in that field, and
\* lists that differ after rounding, in a value or in length, always are.
C24_RoundedComparison ==
    ReportOf("pdf") =>
        \A k \in KeysOf(original.annotations) \cap KeysOf(revised.annotations) :
            \A f \in NumericFields :
                ReportedChanged(changes, k, f)
                    <=> ~SameAfterRounding(HeldUnder(original.annotations, k)[f],
                                           HeldUnder(revised.annotations, k)[f])

\* one note on both sides: the rects differ below the third decimal and are
\* not reported, the quadpoints differ in a value after rounding and the
\* colors in length, and both are reported
C24_Witness ==
    /\ ReportOf("pdf")
    /\ Len(original.annotations) = 1
    /\ Len(revised.annotations) = 1
    /\ _annot_key(original.annotations[1]) = _annot_key(revised.annotations[1])
    /\ original.annotations[1].rect # revised.annotations[1].rect
    /\ original.annotations[1].quadpoints # None
    /\ revised.annotations[1].quadpoints # None
    /\ Len(original.annotations[1].color[1]) # Len(revised.annotations[1].color[1])
    /\ Len(changes.annotation_changes) = 1
    /\ changes.annotation_changes[1].changed_fields = <<"quadpoints", "color">>

\* the fields of an annotation that the fallback key does not read
UnkeyedFields == {"id", "quadpoints", "author", "subject", "color"}

\* the two lists differ at position n only, where an annotation without id
\* changed in page number, subtype, rounded rect or the first 64 characters
\* of contents (an absent subtype or contents read as "", an absent rect as
\* no coordinates) and in nothing the key does not read
KeyInputChangedAt(olist, rlist, n) ==
    /\ Unnamed(olist[n])
    /\ Unnamed(rlist[n])
    /\ \A f \in UnkeyedFields : olist[n][f] = rlist[n][f]
    /\ ~SameKeyInputs(olist[n], rlist[n])
    /\ \A m \in 1..Len(olist) : m # n => olist[m] = rlist[m]

\* the two keys differ, one deleted record names the old key and one added
\* record the new key, and nothing else names them
RekeyedRight(rep, ko, kr) ==
    /\ ko # kr
    /\ Len(RecordsOfKey(rep, ko)) = 1
    /\ RecordsOfKey(rep, ko)[1].change_type = "deleted"
    /\ Len(RecordsOfKey(rep, kr)) = 1
    /\ RecordsOfKey(rep, kr)[1].change_type = "added"

\* C26 as stated: an annotation without id that is the same in both pdf
\* documents except for a change in the first 64 characters of its contents
\* (or in its page number, subtype or rounded rect) has different keys on
\* the two sides and is reported as one deleted plus one added record,
\* never as a modified record.
C26_RekeyedAlways ==
    (ReportOf("pdf") /\ Len(original.annotations) = Len(revised.annotations)) =>
        \A n \in 1..Len(original.annotations) :
            KeyInputChangedAt(original.annotations, revised.annotations, n) =>
                RekeyedRight(changes, _annot_key(original.annotations[n]),
                             _annot_key(revised.annotations[n]))

\* no other annotation of the two lists has the key of position n of
\* either list
KeysUnshared(olist, rlist, n) ==
    \A m \in 1..Len(olist) :
        m # n => /\ _annot_key(olist[m]) \notin {_annot_key(olist[n]),
                                                 _annot_key(rlist[n])}
                 /\ _annot_key(rlist[m]) \notin {_annot_key(olist[n]),
                                                 _annot_key(rlist[n])}

\* C26 amended: such an annotation has different keys on the two sides, and
\* it is reported as one deleted plus one added record, never as a modified
\* record, provided no other annotation of either document resolves to one
\* of its two keys.
C26_RekeyedUnlessShared ==
    (ReportOf("pdf") /\ Len(original.annotations) = Len(revised.annotations)) =>
        \A n \in 1..Len(original.annotations) :
            KeyInputChangedAt(original.annotations, revised.annotations, n) =>
                /\ _annot_key(original.annotations[n])
                      # _annot_key(revised.annotations[n])
                /\ KeysUnshared(original.annotations, revised.annotations, n)
                      => RekeyedRight(changes,
                                      _annot_key(original.annotations[n]),
                                      _annot_key(revised.annotations[n]))

\* next to a named note kept as it is, a note without id whose contents
\* changed in their first characters: one added and one deleted record
C26_Witness ==
    /\ ReportOf("pdf")
    /\ Len(original.annotations) = 2
    /\ Len(revised.annotations) = 2
    /\ ~Unnamed(original.annotations[1])
    /\ KeyInputChangedAt(original.annotations, revised.annotations, 2)
    /\ ContentsPrefix(original.annotations[2])
          # ContentsPrefix(revised.annotations[2])
    /\ Len(changes.annotation_changes) = 2
    /\ \A k \in 1..2 : changes.annotation_changes[k].change_type # "modified"

\* the annotation of key k after which the list holds no other of key k
LastOfKey(list, k) ==
    list[CHOOSE n \in 1..Len(list) :
            /\ _annot_key(list[n]) = k
            /\ \A m \in (n + 1)..Len(list) : _annot_key(list[m]) # k]

\* a record of key k is about the last annotation of key k of each list
AboutLast(rec, k, olist, rlist) ==
    IF rec.change_type = "added"
    THEN k \notin KeysOf(olist) /\ rec.content = LastOfKey(rlist, k).contents
    ELSE IF rec.change_type = "deleted"
    THEN k \notin KeysOf(rlist) /\ rec.content = LastOfKey(olist, k).contents
    ELSE /\ k \in KeysOf(olist) \cap KeysOf(rlist)
         /\ rec.old = AnnotSnapshot(OrElse(LastOfKey(olist, k).contents, <<>>),
                                    LastOfKey(olist, k))
         /\ rec.new = AnnotSnapshot(OrElse(LastOfKey(rlist, k).contents, <<>>),
                                    LastOfKey(rlist, k))

\* C27: the annotations of one document that resolve to one key are
\* collapsed to the last one in list order before the comparison:
\* annotation_changes never holds more than one record per key, and an
\* annotation added to the revised document whose key occurs in both
\* documents produces no added record.
C27_CollapsedToLast ==
    ReportOf("pdf") =>
        \A k \in KeysOf(original.annotations) \cup KeysOf(revised.annotations) :
            /\ Len(RecordsOfKey(changes, k)) <= 1
            /\ \A n \in 1..Len(RecordsOfKey(changes, k)) :
                  AboutLast(RecordsOfKey(changes, k)[n], k,
                            original.annotations, revised.annotations)
            /\ k \in KeysOf(original.annotations) \cap KeysOf(revised.annotations)
                  => Len(RecordsOfKey(changes, k))
                        = IF DifferingFields(LastOfKey(original.annotations, k),
                                             LastOfKey(revised.annotations, k))
                                = <<>>
                          THEN 0 ELSE 1

\* the revised document repeats the note of the original and adds a note
\* of the same name with other contents: one modified record about the
\* added note, and no added record
C27_Witness ==
    /\ ReportOf("pdf")
    /\ Len(original.annotations) = 1
    /\ Len(revised.annotations) = 2
    /\ revised.annotations[1] = original.annotations[1]
    /\ revised.annotations[2] # original.annotations[1]
    /\ _annot_key(revised.annotations[2]) = _annot_key(original.annotations[1])
    /\ Len(changes.annotation_changes) = 1
    /\ changes.annotation_changes[1].change_type = "modified"
    /\ changes.annotation_changes[1].new.contents = revised.annotations[2].contents[1]

---------------------------------------------------------------------------
(* Inputs of the token differ *)

DiffAlphabet == {"a", "b", " ", "<"}
InsertWords == {<<"a">>, <<"b">>}

\* every text of at most MaxLen characters
FreeTexts == SeqsUpTo(DiffAlphabet, MaxLen)

RECURSIVE JoinWords(_)
\* ' '.join(words)
JoinWords(ws) ==
    IF ws = <<>> THEN <<>>
    ELSE IF Len(ws) = 1 THEN ws[1]
    ELSE ws[1] \o <<" ">> \o JoinWords(Tail(ws))

\* words.insert(k, w)
InsertAt(ws, k, w) == SubSeq(ws, 1, k) \o <<w>> \o SubSeq(ws, k + 1, Len(ws))

\* a text of words and the same text with one more word (and its space)
WordInsertionPairs ==
    {<<JoinWords(p[1]), JoinWords(InsertAt(p[1], p[2], p[3]))>> :
        p \in {q \in (SeqsUpTo(InsertWords, MaxWords) \ {<<>>})
                     \X (0..MaxWords) \X InsertWords : q[2] <= Len(q[1])}}

DiffInputs == (FreeTexts \X FreeTexts) \cup WordInsertionPairs

---------------------------------------------------------------------------
(* The token differ applied to one pair of texts *)

NoDocs ==
    /\ original = None
    /\ revised = None
    /\ changes = None
    /\ swapped = None

InitDiff ==
    /\ pc = "diff_ready"
    /\ \E p \in DiffInputs : old = p[1] /\ new = p[2]
    /\ diff = None
    /\ NoDocs
    /\ NoServer

WordDiffHtml ==
    /\ pc = "diff_ready"
    /\ diff' = _word_diff_html(old, new)
    /\ pc' = "diff_done"
    /\ UNCHANGED <<original, revised, changes, swapped, old, new, uploads,
                   requests>>

NextDiff == WordDiffHtml

SpecDiff == InitDiff /\ [][NextDiff]_vars

---------------------------------------------------------------------------
(* Claims about the token differ *)

OldTokens == _tokenize_keep_spaces(old)
NewTokens == _tokenize_keep_spaces(new)
DiffOps == get_opcodes(OldTokens, NewTokens)

\* the tokens of b lying in the spans of ops with a tag in tags, in order
NewSide(b, ops, tags) ==
    Concat([k \in 1..Len(ops) |->
        IF ops[k].tag \in tags THEN Slice(b, ops[k].j1, ops[k].j2) ELSE <<>>])

\* the tokens of a lying in the spans of ops with a tag in tags, in order
OldSide(a, ops, tags) ==
    Concat([k \in 1..Len(ops) |->
        IF ops[k].tag \in tags THEN Slice(a, ops[k].i1, ops[k].i2) ELSE <<>>])

\* C6 as stated: joining the tokens gives back the text, the equal and
\* insert spans alone rebuild new, and the equal and delete spans alone
\* rebuild old.
C6_EqualInsertOnly ==
    pc = "diff_done" =>
        /\ Concat(OldTokens) = old
        /\ Concat(NewTokens) = new
        /\ Concat(NewSide(NewTokens, DiffOps, {"equal", "insert"})) = new
        /\ Concat(OldSide(OldTokens, DiffOps, {"equal", "delete"})) = old

\* C6 amended: joining the tokens of _tokenize_keep_spaces(s) gives back s,
\* and in the opcodes of _word_diff_html the tokens of the equal and insert
\* spans and of the new side of the replace spans rebuild new, while those
\* of the equal and delete spans and of the old side of the replace spans
\* rebuild old.
C6_RoundTrip ==
    pc = "diff_done" =>
        /\ Concat(OldTokens) = old
        /\ Concat(NewTokens) = new
        /\ Concat(NewSide(NewTokens, DiffOps,
                          {"equal", "insert", "replace"})) = new
        /\ Concat(OldSide(OldTokens, DiffOps,
                          {"equal", "delete", "replace"})) = old

\* a differ run whose opcodes hold a replace span between two equal spans
C6_Witness ==
    /\ pc = "diff_done"
    /\ \E k \in 2..(Len(DiffOps) - 1) :
        /\ DiffOps[k].tag = "replace"
        /\ DiffOps[k - 1].tag = "equal"
        /\ DiffOps[k + 1].tag = "equal"
    /\ \E t \in 1..Len(NewTokens) : IsSpaceToken(NewTokens[t])

\* token j (0-based) of the new text lies in a span with a tag in tags
InNewSpan(ops, j, tags) ==
    \E k \in 1..Len(ops) :
        ops[k].tag \in tags /\ ops[k].j1 <= j /\ j < ops[k].j2

\* token i (0-based) of the old text lies in a span with a tag in tags
InOldSpan(ops, i, tags) ==
    \E k \in 1..Len(ops) :
        ops[k].tag \in tags /\ ops[k].i1 <= i /\ i < ops[k].i2

RECURSIVE PickNew(_, _, _)
\* the non-whitespace tokens of b from position j on that lie in an insert
\* or replace span
PickNew(b, ops, j) ==
    IF j >= Len(b) THEN <<>>
    ELSE (IF InNewSpan(ops, j, {"insert", "replace"}) /\ ~IsSpaceToken(b[j + 1])
          THEN <<b[j + 1]>> ELSE <<>>) \o PickNew(b, ops, j + 1)

RECURSIVE PickOld(_, _, _)
\* the non-whitespace tokens of a from position i on that lie in a delete
\* or replace span
PickOld(a, ops, i) ==
    IF i >= Len(a) THEN <<>>
    ELSE (IF InOldSpan(ops, i, {"delete", "replace"}) /\ ~IsSpaceToken(a[i + 1])
          THEN <<a[i + 1]>> ELSE <<>>) \o PickOld(a, ops, i + 1)

\* the new tokens are the old ones with a word and a single space put in
\* after the first k tokens
WordInsertedAt(a, b, k) ==
    /\ Len(b) = Len(a) + 2
    /\ k <= Len(a)
    /\ SubSeq(b, 1, k) = SubSeq(a, 1, k)
    /\ SubSeq(b, k + 3, Len(b)) = SubSeq(a, k + 1, Len(a))
    /\ \/ CharClass(b[k + 1][1]) = "word" /\ b[k + 2] = <<" ">>
       \/ b[k + 1] = <<" ">> /\ CharClass(b[k + 2][1]) = "word"

InsertedWord(b, k) == IF b[k + 1] = <<" ">> THEN b[k + 2] ELSE b[k + 1]

TermLists ==
    /\ diff.added = PickNew(NewTokens, DiffOps, 0)
    /\ diff.deleted = PickOld(OldTokens, DiffOps, 0)

\* C7 as stated: the term lists are the non-whitespace tokens of the insert,
\* delete and replace spans, so every insertion of one word and its space
\* gives added_terms of exactly that word and no deleted_terms.
C7_EveryWordInsertion ==
    pc = "diff_done" =>
        /\ TermLists
        /\ \A k \in 0..Len(OldTokens) :
            WordInsertedAt(OldTokens, NewTokens, k) =>
                /\ diff.added = <<InsertedWord(NewTokens, k)>>
                /\ diff.deleted = <<>>

\* C7 amended: added_terms is the in-order list of the non-whitespace tokens
\* of new in insert spans or on the new side of replace spans, deleted_terms
\* that of the non-whitespace tokens of old in delete spans or on the old
\* side of replace spans; inserting one word and its space gives added_terms
\* of exactly that word and no deleted_terms whenever the alignment holds no
\* delete and no replace span.
C7_TermLists ==
    pc = "diff_done" =>
        /\ TermLists
        /\ \A k \in 0..Len(OldTokens) :
            /\ WordInsertedAt(OldTokens, NewTokens, k)
            /\ \A n \in 1..Len(DiffOps) : DiffOps[n].tag \in {"equal", "insert"}
            => /\ diff.added = <<InsertedWord(NewTokens, k)>>
               /\ diff.deleted = <<>>

\* a word and its space inserted after the first token of a text of two
\* words or more, aligned with equal and insert spans only
C7_Witness ==
    /\ pc = "diff_done"
    /\ \E k \in 1..Len(OldTokens) : WordInsertedAt(OldTokens, NewTokens, k)
    /\ \A n \in 1..Len(DiffOps) : DiffOps[n].tag \in {"equal", "insert"}
    /\ Len(diff.added) = 1
    /\ Len(OldTokens) >= 3

---------------------------------------------------------------------------
(* Claims about the markup of the token differ.  The markup is read back:  *)
(* it is cut at every "<" into the marked and the unmarked stretches, and  *)
(* the character references of each stretch are resolved.                  *)

\* the markup h holds the characters m from index i on
StartsWith(h, i, m) ==
    /\ i + Len(m) - 1 <= Len(h)
    /\ SubSeq(h, i, i + Len(m) - 1) = m

RECURSIVE TextEnd(_, _)
\* index of the last character before the next "<" at or after i
TextEnd(h, i) ==
    IF i > Len(h) \/ h[i] = "<" THEN i - 1 ELSE TextEnd(h, i + 1)

RECURSIVE Unescape(_)
\* the text a stretch of markup stands for
Unescape(t) ==
    IF t = <<>> THEN <<>>
    ELSE IF StartsWith(t, 1, <<"&", "a", "m", "p", ";">>)
    THEN <<"&">> \o Unescape(SubSeq(t, 6, Len(t)))
    ELSE IF StartsWith(t, 1, <<"&", "l", "t", ";">>)
    THEN <<"<">> \o Unescape(SubSeq(t, 5, Len(t)))
    ELSE IF StartsWith(t, 1, <<"&", "g", "t", ";">>)
    THEN <<">">> \o Unescape(SubSeq(t, 5, Len(t)))
    ELSE IF StartsWith(t, 1, <<"&", "q", "u", "o", "t", ";">>)
    THEN <<"\"">> \o Unescape(SubSeq(t, 7, Len(t)))
    ELSE IF StartsWith(t, 1, <<"&", "#", "x", "2", "7", ";">>)
    THEN <<"'">> \o Unescape(SubSeq(t, 7, Len(t)))
    ELSE <<t[1]>> \o Unescape(Tail(t))

\* a stretch of the markup: how it is marked and the text it stands for
Stretch(mark, t) == [mark |-> mark, text |-> Unescape(t)]

RECURSIVE Stretches(_, _)
\* the stretches of the markup h from index i on; a "<" that opens no
\* marker, or a marker that is not closed at the next "<", ends the
\* reading with a stretch marked "tag"
Stretches(h, i) ==
    IF i > Len(h) THEN <<>>
    ELSE IF h[i] # "<"
    THEN <<Stretch("equal", SubSeq(h, i, TextEnd(h, i)))>>
         \o Stretches(h, TextEnd(h, i) + 1)
    ELSE IF /\ StartsWith(h, i, InsOpen)
            /\ StartsWith(h, TextEnd(h, i + Len(InsOpen)) + 1, InsClose)
    THEN <<Stretch("ins", SubSeq(h, i + Len(InsOpen),
                                 TextEnd(h, i + Len(InsOpen))))>>
         \o Stretches(h, TextEnd(h, i + Len(InsOpen)) + 1 + Len(InsClose))
    ELSE IF /\ StartsWith(h, i, DelOpen)
            /\ StartsWith(h, TextEnd(h, i + Len(DelOpen)) + 1, DelClose)
    THEN <<Stretch("del", SubSeq(h, i + Len(DelOpen),
                                 TextEnd(h, i + Len(DelOpen))))>>
         \o Stretches(h, TextEnd(h, i + Len(DelOpen)) + 1 + Len(DelClose))
    ELSE <<Stretch("tag", SubSeq(h, i, Len(h)))>>

\* the stretches the opcodes ops over the token lists a and b call for
SpanStretches(a, b, ops) ==
    Concat([k \in 1..Len(ops) |->
        IF ops[k].tag = "equal"
        THEN <<[mark |-> "equal", text |-> Concat(Slice(a, ops[k].i1, ops[k].i2))]>>
        ELSE IF ops[k].tag = "insert"
        THEN <<[mark |-> "ins", text |-> Concat(Slice(b, ops[k].j1, ops[k].j2))]>>
        ELSE IF ops[k].tag = "delete"
        THEN <<[mark |-> "del", text |-> Concat(Slice(a, ops[k].i1, ops[k].i2))]>>
        ELSE <<[mark |-> "del", text |-> Concat(Slice(a, ops[k].i1, ops[k].i2))],
               [mark |-> "ins", text |-> Concat(Slice(b, ops[k].j1, ops[k].j2))]>>])

\* C25: in the markup of _word_diff_html every token is HTML-escaped, so
\* the only tags are the ins/del markers of the differ; equal spans are
\* unwrapped, an insert span lies in one addition marker, a delete span in
\* one deletion marker, and a replace span is one deletion marker around
\* the old tokens immediately followed by one addition marker around the
\* new tokens, all in opcode order.
C25_MarkupOfSpans ==
    pc = "diff_done" =>
        /\ Stretches(diff.html, 1) = SpanStretches(OldTokens, NewTokens, DiffOps)
        /\ \A k \in 1..Len(diff.html) :
              diff.html[k] = ">" =>
                  \E m \in {InsOpen, InsClose, DelOpen, DelClose} :
                      /\ k >= Len(m)
                      /\ SubSeq(diff.html, k - Len(m) + 1, k) = m

\* a differ run with a "<" in an equal span next to a replace span
C25_Witness ==
    /\ pc = "diff_done"
    /\ \E k \in 1..Len(DiffOps) :
          /\ DiffOps[k].tag = "equal"
          /\ <<"<">> \in Range(Slice(OldTokens, DiffOps[k].i1, DiffOps[k].i2))
    /\ \E k \in 1..Len(DiffOps) : DiffOps[k].tag = "replace"
    /\ \E k \in 1..(Len(Stretches(diff.html, 1)) - 1) :
          /\ Stretches(diff.html, 1)[k].mark = "del"
          /\ Stretches(diff.html, 1)[k + 1].mark = "ins"

---------------------------------------------------------------------------
(* DocumentComparator._compare_word of app/services/comparator.py: the      *)
(* sentence comparison of the second pipeline.  A document is the list of  *)
(* its paragraphs.                                                         *)

RECURSIVE StripSpaces(_)
\* s.strip()
StripSpaces(t) ==
    IF t = <<>> THEN <<>>
    ELSE IF t[1] \in SpaceCharSet THEN StripSpaces(Tail(t))
    ELSE IF t[Len(t)] \in SpaceCharSet THEN StripSpaces(SubSeq(t, 1, Len(t) - 1))
    ELSE t

RECURSIVE SplitAtEnds(_, _, _)
\* re.split(r'[.!?]+', para) from index i on, cur the part read so far;
\* the parts are stripped and the empty ones dropped
SplitAtEnds(para, i, cur) ==
    IF i > Len(para)
    THEN IF StripSpaces(cur) = <<>> THEN <<>> ELSE <<StripSpaces(cur)>>
    ELSE IF para[i] \in SentenceEndSet
    THEN (IF StripSpaces(cur) = <<>> THEN <<>> ELSE <<StripSpaces(cur)>>)
         \o SplitAtEnds(para, i + 1, <<>>)
    ELSE SplitAtEnds(para, i + 1, Append(cur, para[i]))

\* DocumentComparator._split_sentences(paragraphs)
DocumentComparator_split_sentences(paragraphs) ==
    Concat([k \in 1..Len(paragraphs) |-> SplitAtEnds(paragraphs[k], 1, <<>>)])

\* SequenceMatcher(None, s, t).ratio() as the fraction <<2 * M, T>>
Ratio(blocks, total) ==
    <<2 * Len(Concat([k \in 1..Len(blocks) |-> [n \in 1..blocks[k][3] |-> k]])),
      total>>

\* the records of one opcode over the sentence lists a and b
WordOpChanges(a, b, op) ==
    IF op.tag = "replace"
    THEN Concat([n \in 1..(op.i2 - op.i1) |->
            IF op.i1 + n - 1 < Len(a) /\ op.j1 + n - 1 < Len(b)
            THEN <<[type |-> "sentence_modified",
                    location |-> [original_index |-> op.i1 + n - 1,
                                  revised_index |-> op.j1 + n - 1],
                    original |-> Some(a[op.i1 + n]),
                    revised |-> Some(b[op.j1 + n]),
                    similarity |-> Ratio(get_matching_blocks(a[op.i1 + n],
                                                             b[op.j1 + n]),
                                         Len(a[op.i1 + n]) + Len(b[op.j1 + n]))]>>
            ELSE <<>>])
    ELSE IF op.tag = "delete"
    THEN [n \in 1..(op.i2 - op.i1) |->
            [type |-> "sentence_deleted", location |-> [index |-> op.i1 + n - 1],
             original |-> Some(a[op.i1 + n]), revised |-> None]]
    ELSE IF op.tag = "insert"
    THEN [n \in 1..(op.j2 - op.j1) |->
            [type |-> "sentence_added", location |-> [index |-> op.j1 + n - 1],
             original |-> None, revised |-> Some(b[op.j1 + n])]]
    ELSE <<>>

\* the records once the opcodes ops of the sentence lists a, b are known
WordChangesOf(a, b, ops) ==
    Concat([k \in 1..Len(ops) |-> WordOpChanges(a, b, ops[k])])

_compare_word(o, r) ==
    WordChangesOf(DocumentComparator_split_sentences(o),
                  DocumentComparator_split_sentences(r),
                  get_opcodes(DocumentComparator_split_sentences(o),
                              DocumentComparator_split_sentences(r)))

\* the paragraphs of the documents compared
WordParagraphInputs ==
    {<<"x", ".", " ", "y", ".">>, <<"a">>, <<"b", "!", "?", " ">>, <<"x">>}

WordInputs == SeqsUpTo(WordParagraphInputs, MaxParas)

InitWord ==
    /\ pc = "word_ready"
    /\ original \in WordInputs
    /\ revised \in WordInputs
    /\ changes = None
    /\ swapped = None
    /\ NoDiff
    /\ NoServer

CompareWord ==
    /\ pc = "word_ready"
    /\ changes' = _compare_word(original, revised)
    /\ pc' = "word_done"
    /\ UNCHANGED <<original, revised, swapped, old, new, diff, uploads,
                   requests>>

NextWord == CompareWord

SpecWord == InitWord /\ [][NextWord]_vars

---------------------------------------------------------------------------
(* Claims about the sentence comparison of the second pipeline *)

OriginalSentences == DocumentComparator_split_sentences(original)
RevisedSentences == DocumentComparator_split_sentences(revised)
WordOps == get_opcodes(OriginalSentences, RevisedSentences)

\* the records that hold the original sentence of index i
RecordsOfOriginal(recs, i) ==
    {n \in 1..Len(recs) :
        \/ recs[n].type = "sentence_modified" /\ recs[n].location.original_index = i
        \/ recs[n].type = "sentence_deleted" /\ recs[n].location.index = i}

\* the records that hold the revised sentence of index j
RecordsOfRevised(recs, j) ==
    {n \in 1..Len(recs) :
        \/ recs[n].type = "sentence_modified" /\ recs[n].location.revised_index = j
        \/ recs[n].type = "sentence_added" /\ recs[n].location.index = j}

\* the sentences of the span of op are in one record each if the span is
\* not equal, and in none if it is
SpanCovered(recs, op) ==
    /\ \A i \in op.i1..(op.i2 - 1) :
          Cardinality(RecordsOfOriginal(recs, i))
              = IF op.tag = "equal" THEN 0 ELSE 1
    /\ \A j \in op.j1..(op.j2 - 1) :
          Cardinality(RecordsOfRevised(recs, j))
              = IF op.tag = "equal" THEN 0 ELSE 1

\* a sentence_modified record pairs two sentences of one replace span
PairsOneSpan(rec, ops) ==
    rec.type = "sentence_modified" =>
        \E k \in 1..Len(ops) :
            /\ ops[k].tag = "replace"
            /\ rec.location.original_index \in ops[k].i1..(ops[k].i2 - 1)
            /\ rec.location.revised_index \in ops[k].j1..(ops[k].j2 - 1)

\* C30: in _compare_word the change records cover the differences exactly:
\* every original and every revised sentence of a replace, delete or insert
\* span is in exactly one record, every sentence_modified record pairs an
\* original and a revised sentence of one replace span, and no sentence of
\* an equal span is in a record, also when a replace span has different
\* numbers of old and new sentences.
C30_WordRecordsCover ==
    pc = "word_done" =>
        /\ \A k \in 1..Len(WordOps) : SpanCovered(changes, WordOps[k])
        /\ \A n \in 1..Len(changes) : PairsOneSpan(changes[n], WordOps)

---------------------------------------------------------------------------
(* compare_documents of app.py, handled for two requests at a time by the  *)
(* threads of the server.  A request saves its two uploads in the one      *)
(* upload folder under their sanitized names, parses the two paths,        *)
(* compares, removes the two paths and answers.  Every file operation is   *)
(* one step; an exception at any step is answered with status 500.         *)

Requests == {1, 2}

\* secure_filename(file.filename) of the uploads
FileNames == {"a.pdf", "b.pdf"}

\* the contents of the uploaded files, as the documents they hold
FileInputs ==
    {[EmptyDoc("pdf") EXCEPT !.pages = <<[text |-> Some(TextA)]>>],
     [EmptyDoc("pdf") EXCEPT !.pages = <<[text |-> Some(TextAB)]>>],
     [EmptyDoc("pdf") EXCEPT !.pages = <<[text |-> None]>>,
                            !.annotations = <<UnnamedNote(<<"o", "l", "d">>)>>]}

\* the locals of a request that has passed the checks of its two uploads
NewRequest(original_filename, revised_filename, original_file, revised_file) ==
    [pc |-> "checked",
     original_filename |-> original_filename,
     revised_filename |-> revised_filename,
     original_file |-> original_file,
     revised_file |-> revised_file,
     original_content |-> None,
     revised_content |-> None,
     changes |-> None]

InitCompare ==
    /\ pc = "serving"
    /\ NoDocs
    /\ NoDiff
    /\ uploads = [name \in FileNames |-> None]
    /\ requests \in
          [Requests ->
              {NewRequest(on, rn, of, rf) :
                  on \in FileNames, rn \in FileNames,
                  of \in FileInputs, rf \in FileInputs}]
    /\ requests[1].original_file # requests[1].revised_file

\* the request moves on; the detector's variables stay as they are
Step(q, req) ==
    /\ requests' = [requests EXCEPT ![q] = req]
    /\ UNCHANGED <<pc, original, revised, changes, swapped, old, new, diff>>

\* except Exception as e: return jsonify({'error': str(e)}), 500
Failed(req) == [req EXCEPT !.pc = "failed"]

\* original_file.save(original_path)
SaveOriginal(q) ==
    /\ requests[q].pc = "checked"
    /\ uploads' = [uploads EXCEPT ![requests[q].original_filename] =
                      Some(requests[q].original_file)]
    /\ Step(q, [requests[q] EXCEPT !.pc = "saved_original"])

\* revised_file.save(revised_path)
SaveRevised(q) ==
    /\ requests[q].pc = "saved_original"
    /\ uploads' = [uploads EXCEPT ![requests[q].revised_filename] =
                      Some(requests[q].revised_file)]
    /\ Step(q, [requests[q] EXCEPT !.pc = "saved_revised"])

\* an upload that is no document of its kind
CorruptFile == [type |-> "not a document"]

\* parser.parse_document(path) raises: the path is gone, or the file at the
\* path cannot be read as a document
ParseRaises(name) == uploads[name] = None \/ uploads[name][1] = CorruptFile

\* parser.parse_document(original_path)
ParseOriginal(q) ==
    /\ requests[q].pc = "saved_revised"
    /\ UNCHANGED uploads
    /\ IF ParseRaises(requests[q].original_filename)
       THEN Step(q, Failed(requests[q]))
       ELSE Step(q, [requests[q] EXCEPT
                       !.pc = "parsed_original",
                       !.original_content =
                           ParsedDoc(uploads[requests[q].original_filename][1])])

\* parser.parse_document(revised_path)
ParseRevised(q) ==
    /\ requests[q].pc = "parsed_original"
    /\ UNCHANGED uploads
    /\ IF ParseRaises(requests[q].revised_filename)
       THEN Step(q, Failed(requests[q]))
       ELSE Step(q, [requests[q] EXCEPT
                       !.pc = "parsed_revised",
                       !.revised_content =
                           ParsedDoc(uploads[requests[q].revised_filename][1])])

\* detector.detect_changes(original_content, revised_content)
DetectRequest(q) ==
    /\ requests[q].pc = "parsed_revised"
    /\ UNCHANGED uploads
    /\ \E seed \in HashSeeds :
          LET rep == detect_changes(requests[q].original_content,
                                    requests[q].revised_content, seed)
          IN IF rep.status = "raised"
             THEN Step(q, Failed(requests[q]))
             ELSE Step(q, [requests[q] EXCEPT !.pc = "detected",
                                              !.changes = rep])

\* os.remove(original_path): a path that is gone raises
RemoveOriginal(q) ==
    /\ requests[q].pc = "detected"
    /\ IF uploads[requests[q].original_filename] = None
       THEN UNCHANGED uploads /\ Step(q, Failed(requests[q]))
       ELSE /\ uploads' = [uploads EXCEPT ![requests[q].original_filename] = None]
            /\ Step(q, [requests[q] EXCEPT !.pc = "removed_original"])

\* os.remove(revised_path), then the answer with the report
RemoveRevised(q) ==
    /\ requests[q].pc = "removed_original"
    /\ IF uploads[requests[q].revised_filename] = None
       THEN UNCHANGED uploads /\ Step(q, Failed(requests[q]))
       ELSE /\ uploads' = [uploads EXCEPT ![requests[q].revised_filename] = None]
            /\ Step(q, [requests[q] EXCEPT !.pc = "answered"])

NextCompare ==
    \E q \in Requests :
        \/ SaveOriginal(q)
        \/ SaveRevised(q)
        \/ ParseOriginal(q)
        \/ ParseRevised(q)
        \/ DetectRequest(q)
        \/ RemoveOriginal(q)
        \/ RemoveRevised(q)

SpecCompare == InitCompare /\ [][NextCompare]_vars

---------------------------------------------------------------------------
(* One request of compare_documents (app.py) next to one request of        *)
(* api_compare (app/routes.py).  api_compare saves its two uploads under   *)
(* /tmp/{job_id}_original and /tmp/{job_id}_revised, calls                 *)
(* DocumentComparator.compare on the two paths inside its try block,       *)
(* removes the two paths and answers; an exception is answered with        *)
(* status 500.                                                             *)

AppRequest == 1
ApiRequest == 2

\* f"/tmp/{job_id}_original", f"/tmp/{job_id}_revised": no other request
\* has these paths
ApiPaths == {"/tmp/job_original", "/tmp/job_revised"}

\* os.path.splitext(file_path)[1].lower()
PathExtension(path) ==
    IF path \in FileNames THEN ".pdf" ELSE ""

\* DocumentComparator._detect_file_type: the kind, or "raises"
_detect_file_type(file_path) ==
    IF PathExtension(file_path) \in {".xlsx", ".xls"} THEN "excel"
    ELSE IF PathExtension(file_path) \in {".docx", ".doc"} THEN "word"
    ELSE IF PathExtension(file_path) = ".pdf" THEN "pdf"
    ELSE "raises"

\* the uploads of a request: documents, and a file that is none
UploadInputs == FileInputs \cup {CorruptFile}

\* the locals of a request of api_compare that has both uploads
NewApiRequest(original_file, revised_file) ==
    [pc |-> "checked",
     original_path |-> "/tmp/job_original",
     revised_path |-> "/tmp/job_revised",
     original_file |-> original_file,
     revised_file |-> revised_file]

InitCleanup ==
    /\ pc = "serving"
    /\ NoDocs
    /\ NoDiff
    /\ uploads = [name \in FileNames \cup ApiPaths |-> None]
    /\ \E on \in FileNames, rn \in FileNames, of \in UploadInputs,
          rf \in UploadInputs, aof \in UploadInputs, arf \in UploadInputs :
          requests = [q \in Requests |->
                         IF q = AppRequest THEN NewRequest(on, rn, of, rf)
                         ELSE NewApiRequest(aof, arf)]

\* original_file.save(original_path)
ApiSaveOriginal(q) ==
    /\ requests[q].pc = "checked"
    /\ uploads' = [uploads EXCEPT ![requests[q].original_path] =
                      Some(requests[q].original_file)]
    /\ Step(q, [requests[q] EXCEPT !.pc = "saved_original"])

\* revised_file.save(revised_path)
ApiSaveRevised(q) ==
    /\ requests[q].pc = "saved_original"
    /\ uploads' = [uploads EXCEPT ![requests[q].revised_path] =
                      Some(requests[q].revised_file)]
    /\ Step(q, [requests[q] EXCEPT !.pc = "saved_revised"])

\* the try block: comparator.compare raises for a path of no known
\* extension and for a file that cannot be read; otherwise the two paths
\* are removed and the results are answered
ApiCompare(q) ==
    /\ requests[q].pc = "saved_revised"
    /\ IF \/ _detect_file_type(requests[q].original_path) = "raises"
          \/ _detect_file_type(requests[q].revised_path) = "raises"
          \/ _detect_file_type(requests[q].original_path)
                # _detect_file_type(requests[q].revised_path)
          \/ ParseRaises(requests[q].original_path)
          \/ ParseRaises(requests[q].revised_path)
       THEN UNCHANGED uploads /\ Step(q, Failed(requests[q]))
       ELSE /\ uploads' = [uploads EXCEPT ![requests[q].original_path] = None,
                                          ![requests[q].revised_path] = None]
            /\ Step(q, [requests[q] EXCEPT !.pc = "answered"])

NextCleanup ==
    \/ SaveOriginal(AppRequest)
    \/ SaveRevised(AppRequest)
    \/ ParseOriginal(AppRequest)
    \/ ParseRevised(AppRequest)
    \/ DetectRequest(AppRequest)
    \/ RemoveOriginal(AppRequest)
    \/ RemoveRevised(AppRequest)
    \/ ApiSaveOriginal(ApiRequest)
    \/ ApiSaveRevised(ApiRequest)
    \/ ApiCompare(ApiRequest)

SpecCleanup == InitCleanup /\ [][NextCleanup]_vars

\* the response of a request has been returned
Responded(q) == requests[q].pc \in {"answered", "failed"}

\* C28: on every path through the upload handlers compare_documents and
\* api_compare, the paths where parsing or comparison raises included,
\* both files saved for the request have been removed by the time the
\* response is returned.
C28_UploadsRemoved ==
    /\ Responded(AppRequest) =>
          /\ uploads[requests[AppRequest].original_filename] = None
          /\ uploads[requests[AppRequest].revised_filename] = None
    /\ Responded(ApiRequest) =>
          /\ uploads[requests[ApiRequest].original_path] = None
          /\ uploads[requests[ApiRequest].revised_path] = None

\* the uploads of the request of compare_documents are two documents
OwnUploadsReadable ==
    CorruptFile \notin {requests[AppRequest].original_file,
                        requests[AppRequest].revised_file}

\* C29: within one /compare request of app.py the document parsed as the
\* original is the content uploaded in the original field and the document
\* parsed as the revised is the content uploaded in the revised field, also
\* when both uploads have the same sanitized file name, and the request
\* then still completes successfully.
C29_OwnUploadsParsed ==
    OwnUploadsReadable =>
        /\ requests[AppRequest].pc # "failed"
        /\ requests[AppRequest].original_content # None =>
              requests[AppRequest].original_content
                  = ParsedDoc(requests[AppRequest].original_file)
        /\ requests[AppRequest].revised_content # None =>
              requests[AppRequest].revised_content
                  = ParsedDoc(requests[AppRequest].revised_file)

---------------------------------------------------------------------------
(* Claims about the upload handler *)

\* the reports of the two files request q uploaded
OwnReports(q) ==
    {detect_changes(ParsedDoc(requests[q].original_file),
                    ParsedDoc(requests[q].revised_file), seed) :
        seed \in HashSeeds}

\* C18: comparisons that run at the same time are independent: in every
\* interleaving of two /compare requests the result of a request is
\* computed from the two files that request uploaded, and no request fails
\* because of the other, also when uploads of the two requests share a file
\* name.  A request whose own two uploads share a name is left aside here.
C18_IndependentRequests ==
    pc = "serving" =>
        \A q \in Requests :
            requests[q].original_filename # requests[q].revised_filename =>
                /\ requests[q].pc # "failed"
                /\ requests[q].pc \in {"detected", "removed_original", "answered"}
                       => requests[q].changes \in OwnReports(q)

====
